---------------------------- MODULE Spec2Model ----------------------------
(***************************************************************************)
(* A model of the Enaml front end, src/enaml/core/parser.py: the grammar   *)
(* rules (the docstrings of the p_* handlers), their semantic actions, the *)
(* shift-reduce engine that drives them and the helpers they call.         *)
(*                                                                         *)
(* Python values are tagged records: every value has a field k. None is    *)
(* [k |-> "None"], a string [k |-> "str", s |-> ...], an integer           *)
(* [k |-> "int", n |-> ...], a list [k |-> "list", v |-> <<...>>], a tuple *)
(* [k |-> "tuple", v |-> <<...>>], and an ast or enaml_ast node            *)
(* [k |-> <class name>, <attribute> |-> ...]: a node has exactly the       *)
(* attributes that have been set on it. A raised exception is              *)
(* [k |-> "raise", exc |-> <class name>, msg |-> ..., ...].                *)
(***************************************************************************)
EXTENDS Integers, Sequences, FiniteSets, TLC

(***************************************************************************)
(* Bounds of the model.                                                    *)
(***************************************************************************)
\* The longest tuple or list display among the assignment targets tried.
MaxElts == 2

\* The number of lines of the longest declarative source read.
MaxLines == 4

\* The number of tokens of the longest bound expression read.
MaxExprTokens == 5

\* The number of successive calls of translate_operator that are followed.
MaxCalls == 3

\* The number of raw blocks in a source, and of lines in a raw block.
MaxBlocks == 2

MaxBlockLines == 2

\* The number of tokens read after the opening bracket of a subscript.
MaxSliceTokens == 6

\* The number of tokens of the longest chain of trailers read.
MaxTrailerTokens == 11

\* The number of processes that import the parser module at the same time.
MaxProcesses == 2

\* The number of import lines of the longest module read.
MaxImports == 2

\* The number of tokens of the longest lambda read.
MaxLambdaTokens == 14

\* The number of tokens of the longest comprehension read.
MaxCompTokens == 15

\* The number of statements of the longest double-colon binding read.
MaxStmts == 2

VARIABLES
    target,     \* the node handed to set_store_ctxt
    outcome,    \* what that call has produced
    lexer,      \* the lexer: its file name, the source read so far, the
                \* tokens it has made and not yet handed over
    lookahead,  \* the parser's lookahead token, None when it has none
    statestack, \* the parser's stack of automaton states
    symstack,   \* the parser's stack of grammar symbols with their values
    result      \* what parse() has produced so far

vars == <<target, outcome, lexer, lookahead, statestack, symstack, result>>

(***************************************************************************)
(* Python values.                                                          *)
(***************************************************************************)
None == [k |-> "None"]

Str(s) == [k |-> "str", s |-> s]

IntVal(n) == [k |-> "int", n |-> n]

Bool(b) == [k |-> "bool", b |-> b]

List(v) == [k |-> "list", v |-> v]

Tuple(v) == [k |-> "tuple", v |-> v]

\* obj.a = v: the attribute is added when the object does not have it yet.
SetAttr(obj, a, v) == [f \in DOMAIN obj \cup {a} |-> IF f = a THEN v ELSE obj[f]]

\* raise exc(msg): the exception object, which carries its message only.
Raise(exc, msg) == [k |-> "raise", exc |-> exc, msg |-> msg]

IsRaise(v) == v.k = "raise"

\* The values that are not instances of ast.AST.
PlainKinds == {"None", "str", "int", "bool", "list", "tuple", "raise"}

\* bool(v), as filter(None, ...) applies it.
Truthy(v) ==
    CASE v.k = "None" -> FALSE
      [] v.k = "str" -> v.s # ""
      [] v.k = "int" -> v.n # 0
      [] v.k = "bool" -> v.b
      [] v.k \in {"list", "tuple"} -> Len(v.v) > 0
      [] OTHER -> TRUE

Load == [k |-> "Load"]

Store == [k |-> "Store"]

(***************************************************************************)
(* Assignment targets: allowed_store, disallowed_store, set_store_ctxt.    *)
(***************************************************************************)
allowed_store == {"Attribute", "Subscript", "Name", "List", "Tuple"}

\* The table without ast.Call.
disallowed_store_WithoutCall ==
    [ Lambda       |-> "lambda",
      BoolOp       |-> "operator",
      BinOp        |-> "operator",
      UnaryOp      |-> "operator",
      GeneratorExp |-> "generator expression",
      Yield        |-> "yield expression",
      ListComp     |-> "list comprehension",
      SetComp      |-> "set comprehension",
      DictComp     |-> "dict comprehension",
      Dict         |-> "literal",
      Set          |-> "literal",
      Num          |-> "literal",
      Str          |-> "literal",
      Ellipsis     |-> "Ellipsis",
      Compare      |-> "comparison",
      IfExp        |-> "conditional expression" ]

disallowed_store ==
    [ Lambda       |-> "lambda",
      Call         |-> "function call",
      BoolOp       |-> "operator",
      BinOp        |-> "operator",
      UnaryOp      |-> "operator",
      GeneratorExp |-> "generator expression",
      Yield        |-> "yield expression",
      ListComp     |-> "list comprehension",
      SetComp      |-> "set comprehension",
      DictComp     |-> "dict comprehension",
      Dict         |-> "literal",
      Set          |-> "literal",
      Num          |-> "literal",
      Str          |-> "literal",
      Ellipsis     |-> "Ellipsis",
      Compare      |-> "comparison",
      IfExp        |-> "conditional expression" ]

\* The result of a call that mutates its argument: the exception it raised
\* (None when it returned) and the argument as the call left it.
Effect(raised, node) == [raised |-> raised, node |-> node]

RECURSIVE set_store_ctxt(_)
RECURSIVE set_store_items(_, _)
RECURSIVE set_store_items_Reversed(_, _)

\* The loop run from the last item to the first.
set_store_items_Reversed(node, i) ==
    IF i > Len(node.elts.v) THEN Effect(None, node)
    ELSE LET j == Len(node.elts.v) + 1 - i
             r == set_store_ctxt(node.elts.v[j])
             n == SetAttr(node, "elts", List([node.elts.v EXCEPT ![j] = r.node]))
         IN  IF r.raised # None THEN Effect(r.raised, n)
             ELSE set_store_items_Reversed(n, i + 1)

\* The loop of lines 119-121 from item i on: the first item that raises ends
\* it, the items before it keep the context they were given.
set_store_items(node, i) ==
    IF i > Len(node.elts.v) THEN Effect(None, node)
    ELSE LET r == set_store_ctxt(node.elts.v[i])
             n == SetAttr(node, "elts", List([node.elts.v EXCEPT ![i] = r.node]))
         IN  IF r.raised # None THEN Effect(r.raised, n)
             ELSE set_store_items(n, i + 1)

\* The empty tuple taken for a target like any other tuple.
set_store_ctxt_NoEmptyCheck(node) ==
    IF node.k \in allowed_store THEN
        LET n == SetAttr(node, "ctx", Store)
        IN  IF node.k \in {"Tuple", "List"} THEN set_store_items(n, 1)
            ELSE Effect(None, n)
    ELSE IF node.k \in DOMAIN disallowed_store THEN
        Effect(Raise("EnamlSyntaxError",
                     "can't assign to " \o disallowed_store[node.k]), node)
    ELSE Effect(Raise("TypeError", "%d format: a number is required, not str"),
                node)

\* A node class in neither table reaches line 113, where '%d' is applied to
\* the class name: the formatting raises TypeError before SystemError is made.
set_store_ctxt(node) ==
    IF node.k \in allowed_store THEN
        LET n == SetAttr(node, "ctx", Store)
        IN  IF node.k = "Tuple" /\ Len(node.elts.v) = 0 THEN
                Effect(Raise("EnamlSyntaxError", "can't assign to " \o "()"), n)
            ELSE IF node.k \in {"Tuple", "List"} THEN set_store_items(n, 1)
            ELSE Effect(None, n)
    ELSE IF node.k \in DOMAIN disallowed_store THEN
        Effect(Raise("EnamlSyntaxError",
                     "can't assign to " \o disallowed_store[node.k]), node)
    ELSE Effect(Raise("TypeError", "%d format: a number is required, not str"),
                node)

(***************************************************************************)
(* The assignment targets tried: one tree of every node class the          *)
(* expression grammar builds, as its handler builds it, and the tuple and  *)
(* list displays over them, nested twice.                                  *)
(***************************************************************************)
NameA == [k |-> "Name", id |-> Str("a"), ctx |-> Load]

NameB == [k |-> "Name", id |-> Str("b"), ctx |-> Load]

NoArgs == [k |-> "arguments", args |-> List(<<>>), defaults |-> List(<<>>),
           kwarg |-> None, vararg |-> None]

GenA == List(<<[k |-> "comprehension", target |-> SetAttr(NameA, "ctx", Store),
                iter |-> NameB, ifs |-> List(<<>>)]>>)

LeafTargets ==
    { NameA,
      [k |-> "Attribute", attr |-> Str("b"), ctx |-> Load, value |-> NameA],
      [k |-> "Subscript", slice |-> [k |-> "Index", value |-> NameB],
       ctx |-> Load, value |-> NameA],
      [k |-> "Call", args |-> List(<<>>), keywords |-> List(<<>>),
       starargs |-> None, kwargs |-> None, func |-> NameA],
      [k |-> "Lambda", args |-> NoArgs, body |-> NameA],
      [k |-> "BoolOp", op |-> [k |-> "Or"], values |-> List(<<NameA, NameB>>)],
      [k |-> "BinOp", left |-> NameA, op |-> [k |-> "Add"], right |-> NameB],
      [k |-> "UnaryOp", op |-> [k |-> "USub"], operand |-> NameA],
      [k |-> "GeneratorExp", elt |-> NameA, generators |-> GenA],
      [k |-> "ListComp", elt |-> NameA, generators |-> GenA],
      [k |-> "SetComp", elt |-> NameA, generators |-> GenA],
      [k |-> "DictComp", key |-> NameA, value |-> NameB, generators |-> GenA],
      [k |-> "Dict", keys |-> List(<<>>), values |-> List(<<>>)],
      [k |-> "Set", elts |-> List(<<NameA>>)],
      [k |-> "Num", n |-> IntVal(1)],
      [k |-> "Str", s |-> Str("s")],
      [k |-> "Compare", left |-> NameA, ops |-> List(<<[k |-> "Lt"]>>),
       comparators |-> List(<<NameB>>)],
      [k |-> "IfExp", body |-> NameA, test |-> NameB, orelse |-> NameA] }

\* The tuple and list displays of at most MaxElts elements over a set of trees.
Displays(S) ==
    { [k |-> kd, elts |-> List(es), ctx |-> Load] :
        kd \in {"Tuple", "List"},
        es \in UNION { [1..n -> S] : n \in 0..MaxElts } }

\* The elements of the displays nested in a display.
InnerTargets ==
    { t \in LeafTargets : t.k \in {"Name", "Call", "Num"} }
        \cup Displays({ t \in LeafTargets : t.k \in {"Name", "Call"} })

Targets == LeafTargets \cup Displays(LeafTargets) \cup Displays(InnerTargets)


(***************************************************************************)
(* The ast helpers the handlers call.                                      *)
(***************************************************************************)
\* ast.Name(id=..., ctx=ast.Load())
Name(id) == [k |-> "Name", id |-> id, ctx |-> Load]

\* The node classes whose _attributes hold lineno and col_offset: the
\* expression and statement classes. ast.Expression, ast.Module, the operator
\* and the context classes have neither.
Located ==
    { "Name", "Num", "Str", "Tuple", "List", "Dict", "Set", "Attribute",
      "Subscript", "Call", "Lambda", "IfExp", "BoolOp", "BinOp", "UnaryOp",
      "Compare", "GeneratorExp", "ListComp", "SetComp", "DictComp", "Yield",
      "Assign", "AugAssign", "Expr", "Print", "Import", "ImportFrom" }

\* The attributes a handler sets on a node that are no field of its class:
\* ast.iter_child_nodes does not see them.
NotFields == {"uppper"}

RECURSIVE fix(_, _, _)
\* _fix of ast.fix_missing_locations: a located node without a lineno takes
\* the one handed down, a located node with one hands its own down; the
\* children are the AST instances among the fields and in the lists among
\* the fields of the class.
fix(node, lineno, col_offset) ==
    LET here == IF node.k \notin Located THEN node
                ELSE SetAttr(SetAttr(node, "lineno",
                                 IF "lineno" \in DOMAIN node THEN node.lineno
                                 ELSE lineno),
                             "col_offset",
                             IF "col_offset" \in DOMAIN node THEN node.col_offset
                             ELSE col_offset)
        ln   == IF node.k \in Located THEN here.lineno ELSE lineno
        co   == IF node.k \in Located THEN here.col_offset ELSE col_offset
    IN  [f \in DOMAIN here |->
            IF f \in {"k", "lineno", "col_offset"} \cup NotFields THEN here[f]
            ELSE IF here[f].k = "list" THEN
                List([i \in DOMAIN here[f].v |->
                        IF here[f].v[i].k \in PlainKinds THEN here[f].v[i]
                        ELSE fix(here[f].v[i], ln, co)])
            ELSE IF here[f].k \in PlainKinds THEN here[f]
            ELSE fix(here[f], ln, co)]

\* ast.fix_missing_locations(node): _fix(node, 1, 0).
fix_missing_locations(node) == fix(node, IntVal(1), IntVal(0))

\* ast.parse(text, filename, mode='exec'). The text is the sequence of its
\* lines, each an empty line, a statement ("ok") or a line that is no
\* statement ("bad"): the first bad line raises a SyntaxError that carries
\* the file name and the line, counted from 1 in the text; otherwise the
\* Module of the statements comes back, each with its line in the text.
ast_parse(text, filename) ==
    LET Bad(i) == text[i] = "bad"
        Stmt(i) == text[i] = "ok"
        all == [i \in 1..Len(text) |-> i]
        bad == SelectSeq(all, Bad)
        stmts == SelectSeq(all, Stmt)
    IN  IF bad # <<>>
        THEN [k |-> "raise", exc |-> "SyntaxError", msg |-> "invalid syntax",
              filename |-> filename, lineno |-> IntVal(bad[1])]
        ELSE [k |-> "Module",
              body |-> List([j \in DOMAIN stmts |->
                               [k |-> "Expr", value |-> Name(Str("ok")),
                                lineno |-> IntVal(stmts[j]),
                                col_offset |-> IntVal(0)]])]

\* '\n' * n: n empty lines.
NewLines(n) == [i \in 1..n |-> ""]

\* expr = ast.Expression(body=...); expr.lineno = lineno;
\* ast.fix_missing_locations(expr); enaml_ast.Python(expr, lineno)
PythonExpression(body, lineno) ==
    [k |-> "Python",
     py_ast |-> fix_missing_locations(
                    SetAttr([k |-> "Expression", body |-> body], "lineno", lineno)),
     lineno |-> lineno]

(***************************************************************************)
(* The grammar: one entry for every alternative of a handler's docstring,  *)
(* h the handler, l the rule's left side, r its right side. The first      *)
(* entry is the rule yacc adds around the start symbol, which is the left  *)
(* side of the first handler of the file. The rules are those of the       *)
(* declarative layer and of the expression layers from test down to power. *)
(***************************************************************************)
Grammar ==
    << [h |-> "S'", l |-> "S'", r |-> <<"enaml">>],
       [h |-> "p_enaml1", l |-> "enaml", r |-> <<"enaml_module", "NEWLINE", "ENDMARKER">>],
       [h |-> "p_enaml1", l |-> "enaml", r |-> <<"enaml_module", "ENDMARKER">>],
       [h |-> "p_enaml2", l |-> "enaml", r |-> <<"NEWLINE", "ENDMARKER">>],
       [h |-> "p_enaml2", l |-> "enaml", r |-> <<"ENDMARKER">>],
       [h |-> "p_enaml3", l |-> "enaml", r |-> <<"STRING", "NEWLINE", "ENDMARKER">>],
       [h |-> "p_enaml_module1", l |-> "enaml_module", r |-> <<"enaml_module_body">>],
       [h |-> "p_enaml_module2", l |-> "enaml_module", r |-> <<"STRING", "NEWLINE", "enaml_module_body">>],
       [h |-> "p_enaml_module_body1", l |-> "enaml_module_body", r |-> <<"enaml_module_body", "enaml_module_item">>],
       [h |-> "p_enaml_module_body2", l |-> "enaml_module_body", r |-> <<"enaml_module_item">>],
       [h |-> "p_enaml_module_item1", l |-> "enaml_module_item", r |-> <<"enaml_import">>],
       [h |-> "p_enaml_module_item2", l |-> "enaml_module_item", r |-> <<"declaration">>],
       [h |-> "p_enaml_module_item3", l |-> "enaml_module_item", r |-> <<"raw_python">>],
       [h |-> "p_enaml_raw_python", l |-> "raw_python", r |-> <<"PY_BLOCK_START", "NEWLINE", "PY_BLOCK", "PY_BLOCK_END", "NEWLINE">>],
       [h |-> "p_enaml_import", l |-> "enaml_import", r |-> <<"import_stmt">>],
       [h |-> "p_declaration", l |-> "declaration", r |-> <<"NAME", "LPAR", "NAME", "RPAR", "COLON", "declaration_body">>],
       [h |-> "p_declaration_body1", l |-> "declaration_body", r |-> <<"NEWLINE", "INDENT", "declaration_body_items", "DEDENT">>],
       [h |-> "p_declaration_body2", l |-> "declaration_body", r |-> <<"NEWLINE", "INDENT", "identifier", "DEDENT">>],
       [h |-> "p_declaration_body3", l |-> "declaration_body", r |-> <<"NEWLINE", "INDENT", "identifier", "declaration_body_items", "DEDENT">>],
       [h |-> "p_declaration_body4", l |-> "declaration_body", r |-> <<"NEWLINE", "INDENT", "STRING", "NEWLINE", "declaration_body_items", "DEDENT">>],
       [h |-> "p_declaration_body5", l |-> "declaration_body", r |-> <<"NEWLINE", "INDENT", "STRING", "NEWLINE", "identifier", "DEDENT">>],
       [h |-> "p_declaration_body6", l |-> "declaration_body", r |-> <<"NEWLINE", "INDENT", "STRING", "NEWLINE", "identifier", "declaration_body_items", "DEDENT">>],
       [h |-> "p_declaration_body_items1", l |-> "declaration_body_items", r |-> <<"declaration_body_item">>],
       [h |-> "p_declaration_body_items2", l |-> "declaration_body_items", r |-> <<"declaration_body_items", "declaration_body_item">>],
       [h |-> "p_declaration_body_item1", l |-> "declaration_body_item", r |-> <<"attribute_declaration">>],
       [h |-> "p_declaration_body_item2", l |-> "declaration_body_item", r |-> <<"attribute_binding">>],
       [h |-> "p_declaration_body_item3", l |-> "declaration_body_item", r |-> <<"instantiation">>],
       [h |-> "p_declaration_body_item4", l |-> "declaration_body_item", r |-> <<"PASS", "NEWLINE">>],
       [h |-> "p_attribute_declaration1", l |-> "attribute_declaration", r |-> <<"NAME", "NAME", "NEWLINE">>],
       [h |-> "p_attribute_declaration2", l |-> "attribute_declaration", r |-> <<"NAME", "NAME", "COLON", "NAME", "NEWLINE">>],
       [h |-> "p_attribute_declaration3", l |-> "attribute_declaration", r |-> <<"NAME", "NAME", "binding">>],
       [h |-> "p_attribute_declaration4", l |-> "attribute_declaration", r |-> <<"NAME", "NAME", "COLON", "NAME", "binding">>],
       [h |-> "p_identifier", l |-> "identifier", r |-> <<"NAME", "COLON", "NAME", "NEWLINE">>],
       [h |-> "p_instantiation", l |-> "instantiation", r |-> <<"NAME", "COLON", "instantiation_body">>],
       [h |-> "p_instantiation_body1", l |-> "instantiation_body", r |-> <<"NEWLINE", "INDENT", "instantiation_body_items", "DEDENT">>],
       [h |-> "p_instantiation_body2", l |-> "instantiation_body", r |-> <<"NEWLINE", "INDENT", "identifier", "DEDENT">>],
       [h |-> "p_instantiation_body3", l |-> "instantiation_body", r |-> <<"NEWLINE", "INDENT", "identifier", "instantiation_body_items", "DEDENT">>],
       [h |-> "p_instantiation_body_items1", l |-> "instantiation_body_items", r |-> <<"instantiation_body_item">>],
       [h |-> "p_instantiation_body_items2", l |-> "instantiation_body_items", r |-> <<"instantiation_body_items", "instantiation_body_item">>],
       [h |-> "p_instantiation_body_item1", l |-> "instantiation_body_item", r |-> <<"instantiation">>],
       [h |-> "p_instantiation_body_item2", l |-> "instantiation_body_item", r |-> <<"attribute_binding">>],
       [h |-> "p_instantiation_body_item3", l |-> "instantiation_body_item", r |-> <<"PASS", "NEWLINE">>],
       [h |-> "p_attribute_binding", l |-> "attribute_binding", r |-> <<"NAME", "binding">>],
       [h |-> "p_binding1", l |-> "binding", r |-> <<"EQUAL", "test", "NEWLINE">>],
       [h |-> "p_binding1", l |-> "binding", r |-> <<"COLONEQUAL", "test", "NEWLINE">>],
       [h |-> "p_binding1", l |-> "binding", r |-> <<"LEFTSHIFT", "test", "NEWLINE">>],
       [h |-> "p_binding1", l |-> "binding", r |-> <<"RIGHTSHIFT", "test", "NEWLINE">>],
       [h |-> "p_binding2", l |-> "binding", r |-> <<"DOUBLECOLON", "simple_stmt_line">>],
       [h |-> "p_binding3", l |-> "binding", r |-> <<"DOUBLECOLON", "simple_stmt_suite">>],
       [h |-> "p_simple_stmt_suite", l |-> "simple_stmt_suite", r |-> <<"NEWLINE", "INDENT", "simple_stmt_list", "DEDENT">>],
       [h |-> "p_simple_stmt_list1", l |-> "simple_stmt_list", r |-> <<"simple_stmt_line", "simple_stmt_list">>],
       [h |-> "p_simple_stmt_list2", l |-> "simple_stmt_list", r |-> <<"simple_stmt_line">>],
       [h |-> "p_simple_stmt_line", l |-> "simple_stmt_line", r |-> <<"simple_stmt", "NEWLINE">>],
       [h |-> "p_simple_stmt", l |-> "simple_stmt", r |-> <<"small_stmt">>],
       [h |-> "p_small_stmt1", l |-> "small_stmt", r |-> <<"expr_stmt">>],
       [h |-> "p_expr_stmt1", l |-> "expr_stmt", r |-> <<"testlist">>],
       [h |-> "p_expr_stmt2", l |-> "expr_stmt", r |-> <<"testlist", "EQUAL", "testlist">>],
       [h |-> "p_testlist1", l |-> "testlist", r |-> <<"test">>],
       [h |-> "p_testlist2", l |-> "testlist", r |-> <<"test", "COMMA">>],
       [h |-> "p_testlist3", l |-> "testlist", r |-> <<"test", "testlist_list">>],
       [h |-> "p_testlist4", l |-> "testlist", r |-> <<"test", "testlist_list", "COMMA">>],
       [h |-> "p_testlist_list1", l |-> "testlist_list", r |-> <<"COMMA", "test">>],
       [h |-> "p_testlist_list2", l |-> "testlist_list", r |-> <<"testlist_list", "COMMA", "test">>],
       [h |-> "p_import_stmt2", l |-> "import_stmt", r |-> <<"import_from", "NEWLINE">>],
       [h |-> "p_import_from1", l |-> "import_from", r |-> <<"FROM", "dotted_name", "IMPORT", "STAR">>],
       [h |-> "p_import_from2", l |-> "import_from", r |-> <<"FROM", "dotted_name", "IMPORT", "import_as_names">>],
       [h |-> "p_import_from3", l |-> "import_from", r |-> <<"FROM", "dotted_name", "IMPORT", "LPAR", "import_as_names", "RPAR">>],
       [h |-> "p_import_from4", l |-> "import_from", r |-> <<"FROM", "import_from_dots", "dotted_name", "IMPORT", "STAR">>],
       [h |-> "p_import_from5", l |-> "import_from", r |-> <<"FROM", "import_from_dots", "dotted_name", "IMPORT", "import_as_name">>],
       [h |-> "p_import_from6", l |-> "import_from", r |-> <<"FROM", "import_from_dots", "dotted_name", "IMPORT", "LPAR", "import_as_names", "RPAR">>],
       [h |-> "p_import_from7", l |-> "import_from", r |-> <<"FROM", "import_from_dots", "IMPORT", "STAR">>],
       [h |-> "p_import_from8", l |-> "import_from", r |-> <<"FROM", "import_from_dots", "IMPORT", "import_as_names">>],
       [h |-> "p_import_from9", l |-> "import_from", r |-> <<"FROM", "import_from_dots", "IMPORT", "LPAR", "import_as_names", "RPAR">>],
       [h |-> "p_import_from_dots1", l |-> "import_from_dots", r |-> <<"DOT">>],
       [h |-> "p_import_from_dots2", l |-> "import_from_dots", r |-> <<"import_from_dots", "DOT">>],
       [h |-> "p_import_as_name1", l |-> "import_as_name", r |-> <<"NAME">>],
       [h |-> "p_import_as_names1", l |-> "import_as_names", r |-> <<"import_as_name">>],
       [h |-> "p_import_as_names2", l |-> "import_as_names", r |-> <<"import_as_name", "COMMA">>],
       [h |-> "p_import_as_names3", l |-> "import_as_names", r |-> <<"import_as_name", "import_as_names_list">>],
       [h |-> "p_import_as_names4", l |-> "import_as_names", r |-> <<"import_as_name", "import_as_names_list", "COMMA">>],
       [h |-> "p_import_as_names_list1", l |-> "import_as_names_list", r |-> <<"COMMA", "import_as_name">>],
       [h |-> "p_import_as_names_list2", l |-> "import_as_names_list", r |-> <<"import_as_names_list", "COMMA", "import_as_name">>],
       [h |-> "p_dotted_name1", l |-> "dotted_name", r |-> <<"NAME">>],
       [h |-> "p_test1", l |-> "test", r |-> <<"or_test">>],
       [h |-> "p_test3", l |-> "test", r |-> <<"lambdef">>],
       [h |-> "p_or_test1", l |-> "or_test", r |-> <<"and_test">>],
       [h |-> "p_or_test2", l |-> "or_test", r |-> <<"and_test", "or_test_list">>],
       [h |-> "p_or_test_list1", l |-> "or_test_list", r |-> <<"OR", "and_test">>],
       [h |-> "p_or_test_list2", l |-> "or_test_list", r |-> <<"or_test_list", "OR", "and_test">>],
       [h |-> "p_and_test1", l |-> "and_test", r |-> <<"not_test">>],
       [h |-> "p_and_test2", l |-> "and_test", r |-> <<"not_test", "and_test_list">>],
       [h |-> "p_and_test_list1", l |-> "and_test_list", r |-> <<"AND", "not_test">>],
       [h |-> "p_and_test_list2", l |-> "and_test_list", r |-> <<"and_test_list", "AND", "not_test">>],
       [h |-> "p_not_test", l |-> "not_test", r |-> <<"comparison">>],
       [h |-> "p_not_test2", l |-> "not_test", r |-> <<"NOT", "not_test">>],
       [h |-> "p_comparison1", l |-> "comparison", r |-> <<"expr">>],
       [h |-> "p_comparison2", l |-> "comparison", r |-> <<"expr", "comparison_list">>],
       [h |-> "p_comparison_list1", l |-> "comparison_list", r |-> <<"comp_op", "expr">>],
       [h |-> "p_comparison_list2", l |-> "comparison_list", r |-> <<"comparison_list", "comp_op", "expr">>],
       [h |-> "p_comp_op1", l |-> "comp_op", r |-> <<"LESS">>],
       [h |-> "p_comp_op2", l |-> "comp_op", r |-> <<"GREATER">>],
       [h |-> "p_comp_op3", l |-> "comp_op", r |-> <<"EQEQUAL">>],
       [h |-> "p_comp_op4", l |-> "comp_op", r |-> <<"GREATEREQUAL">>],
       [h |-> "p_comp_op5", l |-> "comp_op", r |-> <<"LESSEQUAL">>],
       [h |-> "p_comp_op6", l |-> "comp_op", r |-> <<"NOTEQUAL">>],
       [h |-> "p_comp_op7", l |-> "comp_op", r |-> <<"IN">>],
       [h |-> "p_comp_op8", l |-> "comp_op", r |-> <<"NOT", "IN">>],
       [h |-> "p_comp_op9", l |-> "comp_op", r |-> <<"IS">>],
       [h |-> "p_comp_op10", l |-> "comp_op", r |-> <<"IS", "NOT">>],
       [h |-> "p_expr1", l |-> "expr", r |-> <<"xor_expr">>],
       [h |-> "p_expr2", l |-> "expr", r |-> <<"xor_expr", "expr_list">>],
       [h |-> "p_expr_list1", l |-> "expr_list", r |-> <<"VBAR", "xor_expr">>],
       [h |-> "p_expr_list2", l |-> "expr_list", r |-> <<"expr_list", "VBAR", "xor_expr">>],
       [h |-> "p_xor_expr1", l |-> "xor_expr", r |-> <<"and_expr">>],
       [h |-> "p_xor_expr2", l |-> "xor_expr", r |-> <<"and_expr", "xor_expr_list">>],
       [h |-> "p_xor_expr_list1", l |-> "xor_expr_list", r |-> <<"CIRCUMFLEX", "and_expr">>],
       [h |-> "p_xor_expr_list2", l |-> "xor_expr_list", r |-> <<"xor_expr_list", "CIRCUMFLEX", "and_expr">>],
       [h |-> "p_and_expr1", l |-> "and_expr", r |-> <<"shift_expr">>],
       [h |-> "p_and_expr2", l |-> "and_expr", r |-> <<"shift_expr", "and_expr_list">>],
       [h |-> "p_and_expr_list1", l |-> "and_expr_list", r |-> <<"AMPER", "shift_expr">>],
       [h |-> "p_and_expr_list2", l |-> "and_expr_list", r |-> <<"and_expr_list", "AMPER", "shift_expr">>],
       [h |-> "p_shift_expr1", l |-> "shift_expr", r |-> <<"arith_expr">>],
       [h |-> "p_shift_expr2", l |-> "shift_expr", r |-> <<"arith_expr", "shift_list">>],
       [h |-> "p_shift_list1", l |-> "shift_list", r |-> <<"shift_op">>],
       [h |-> "p_shift_list2", l |-> "shift_list", r |-> <<"shift_list", "shift_op">>],
       [h |-> "p_shift_op1", l |-> "shift_op", r |-> <<"LEFTSHIFT", "arith_expr">>],
       [h |-> "p_shift_op2", l |-> "shift_op", r |-> <<"RIGHTSHIFT", "arith_expr">>],
       [h |-> "p_arith_expr1", l |-> "arith_expr", r |-> <<"term">>],
       [h |-> "p_arith_expr2", l |-> "arith_expr", r |-> <<"term", "arith_expr_list">>],
       [h |-> "p_arith_expr_list1", l |-> "arith_expr_list", r |-> <<"arith_op">>],
       [h |-> "p_arith_expr_list2", l |-> "arith_expr_list", r |-> <<"arith_expr_list", "arith_op">>],
       [h |-> "p_arith_op1", l |-> "arith_op", r |-> <<"PLUS", "term">>],
       [h |-> "p_arith_op2", l |-> "arith_op", r |-> <<"MINUS", "term">>],
       [h |-> "p_term1", l |-> "term", r |-> <<"factor">>],
       [h |-> "p_term2", l |-> "term", r |-> <<"factor", "term_list">>],
       [h |-> "p_term_list1", l |-> "term_list", r |-> <<"term_op">>],
       [h |-> "p_term_list2", l |-> "term_list", r |-> <<"term_list", "term_op">>],
       [h |-> "p_term_op1", l |-> "term_op", r |-> <<"STAR", "factor">>],
       [h |-> "p_term_op2", l |-> "term_op", r |-> <<"SLASH", "factor">>],
       [h |-> "p_term_op3", l |-> "term_op", r |-> <<"PERCENT", "factor">>],
       [h |-> "p_term_op4", l |-> "term_op", r |-> <<"DOUBLESLASH", "factor">>],
       [h |-> "p_factor1", l |-> "factor", r |-> <<"power">>],
       [h |-> "p_factor2", l |-> "factor", r |-> <<"PLUS", "factor">>],
       [h |-> "p_factor3", l |-> "factor", r |-> <<"MINUS", "factor">>],
       [h |-> "p_factor4", l |-> "factor", r |-> <<"TILDE", "factor">>],
       [h |-> "p_power1", l |-> "power", r |-> <<"atom">>],
       [h |-> "p_power2", l |-> "power", r |-> <<"atom", "DOUBLESTAR", "factor">>],
       [h |-> "p_power3", l |-> "power", r |-> <<"atom", "power_list">>],
       [h |-> "p_power4", l |-> "power", r |-> <<"atom", "power_list", "DOUBLESTAR", "factor">>],
       [h |-> "p_power_list1", l |-> "power_list", r |-> <<"trailer">>],
       [h |-> "p_power_list2", l |-> "power_list", r |-> <<"power_list", "trailer">>],
       [h |-> "p_atom1", l |-> "atom", r |-> <<"LPAR", "RPAR">>],
       [h |-> "p_atom2", l |-> "atom", r |-> <<"LPAR", "testlist_comp", "RPAR">>],
       [h |-> "p_atom3", l |-> "atom", r |-> <<"LSQB", "RSQB">>],
       [h |-> "p_atom4", l |-> "atom", r |-> <<"LSQB", "listmaker", "RSQB">>],
       [h |-> "p_atom5", l |-> "atom", r |-> <<"LBRACE", "RBRACE">>],
       [h |-> "p_atom6", l |-> "atom", r |-> <<"LBRACE", "dictorsetmaker", "RBRACE">>],
       [h |-> "p_atom7", l |-> "atom", r |-> <<"NAME">>],
       [h |-> "p_listmaker1", l |-> "listmaker", r |-> <<"test", "list_for">>],
       [h |-> "p_listmaker2", l |-> "listmaker", r |-> <<"test">>],
       [h |-> "p_listmaker3", l |-> "listmaker", r |-> <<"test", "COMMA">>],
       [h |-> "p_listmaker4", l |-> "listmaker", r |-> <<"test", "listmaker_list">>],
       [h |-> "p_listmaker5", l |-> "listmaker", r |-> <<"test", "listmaker_list", "COMMA">>],
       [h |-> "p_listmaker_list1", l |-> "listmaker_list", r |-> <<"COMMA", "test">>],
       [h |-> "p_listmaker_list2", l |-> "listmaker_list", r |-> <<"listmaker_list", "COMMA", "test">>],
       [h |-> "p_testlist_comp1", l |-> "testlist_comp", r |-> <<"test", "comp_for">>],
       [h |-> "p_testlist_comp2", l |-> "testlist_comp", r |-> <<"test">>],
       [h |-> "p_testlist_comp3", l |-> "testlist_comp", r |-> <<"test", "COMMA">>],
       [h |-> "p_testlist_comp4", l |-> "testlist_comp", r |-> <<"test", "testlist_comp_list">>],
       [h |-> "p_testlist_comp5", l |-> "testlist_comp", r |-> <<"test", "testlist_comp_list", "COMMA">>],
       [h |-> "p_testlist_comp_list1", l |-> "testlist_comp_list", r |-> <<"COMMA", "test">>],
       [h |-> "p_testlist_comp_list2", l |-> "testlist_comp_list", r |-> <<"testlist_comp_list", "COMMA", "test">>],
       [h |-> "p_trailer1", l |-> "trailer", r |-> <<"LPAR", "RPAR">>],
       [h |-> "p_trailer2", l |-> "trailer", r |-> <<"LPAR", "arglist", "RPAR">>],
       [h |-> "p_trailer3", l |-> "trailer", r |-> <<"LSQB", "subscriptlist", "RSQB">>],
       [h |-> "p_trailer4", l |-> "trailer", r |-> <<"DOT", "NAME">>],
       [h |-> "p_subscriptlist1", l |-> "subscriptlist", r |-> <<"subscript">>],
       [h |-> "p_subscriptlist2", l |-> "subscriptlist", r |-> <<"subscript", "COMMA">>],
       [h |-> "p_subscriptlist3", l |-> "subscriptlist", r |-> <<"subscript", "subscriptlist_list">>],
       [h |-> "p_subscriptlist4", l |-> "subscriptlist", r |-> <<"subscript", "subscriptlist_list", "COMMA">>],
       [h |-> "p_subscriptlist_list1", l |-> "subscriptlist_list", r |-> <<"COMMA", "subscript">>],
       [h |-> "p_subscript_list2", l |-> "subscriptlist_list", r |-> <<"subscriptlist_list", "COMMA", "subscript">>],
       [h |-> "p_subscript1", l |-> "subscript", r |-> <<"ELLIPSIS">>],
       [h |-> "p_subcript2", l |-> "subscript", r |-> <<"test">>],
       [h |-> "p_subscript3", l |-> "subscript", r |-> <<"COLON">>],
       [h |-> "p_subscript4", l |-> "subscript", r |-> <<"DOUBLECOLON">>],
       [h |-> "p_subscript5", l |-> "subscript", r |-> <<"test", "COLON">>],
       [h |-> "p_subscrip6", l |-> "subscript", r |-> <<"test", "DOUBLECOLON">>],
       [h |-> "p_subscript7", l |-> "subscript", r |-> <<"COLON", "test">>],
       [h |-> "p_subscript8", l |-> "subscript", r |-> <<"COLON", "test", "COLON">>],
       [h |-> "p_subscript9", l |-> "subscript", r |-> <<"DOUBLECOLON", "test">>],
       [h |-> "p_subscript10", l |-> "subscript", r |-> <<"test", "COLON", "test">>],
       [h |-> "p_subscript11", l |-> "subscript", r |-> <<"test", "COLON", "test", "COLON">>],
       [h |-> "p_subscript12", l |-> "subscript", r |-> <<"COLON", "test", "COLON", "test">>],
       [h |-> "p_subscript13", l |-> "subscript", r |-> <<"test", "COLON", "test", "COLON", "test">>],
       [h |-> "p_subscript14", l |-> "subscript", r |-> <<"test", "DOUBLECOLON", "test">>],
       [h |-> "p_exprlist1", l |-> "exprlist", r |-> <<"expr">>],
       [h |-> "p_exprlist2", l |-> "exprlist", r |-> <<"expr", "COMMA">>],
       [h |-> "p_exprlist3", l |-> "exprlist", r |-> <<"expr", "exprlist_list">>],
       [h |-> "p_exprlist4", l |-> "exprlist", r |-> <<"expr", "exprlist_list", "COMMA">>],
       [h |-> "p_exprlist_list1", l |-> "exprlist_list", r |-> <<"COMMA", "expr">>],
       [h |-> "p_exprlist_list2", l |-> "exprlist_list", r |-> <<"exprlist_list", "COMMA", "expr">>],
       [h |-> "p_dictorsetmaker1", l |-> "dictorsetmaker", r |-> <<"test", "COLON", "test", "comp_for">>],
       [h |-> "p_dictorsetmaker2", l |-> "dictorsetmaker", r |-> <<"test", "COLON", "test">>],
       [h |-> "p_dictorsetmaker3", l |-> "dictorsetmaker", r |-> <<"test", "COLON", "test", "COMMA">>],
       [h |-> "p_dictorsetmaker4", l |-> "dictorsetmaker", r |-> <<"test", "COLON", "test", "dosm_colon_list">>],
       [h |-> "p_dictorsetmaker5", l |-> "dictorsetmaker", r |-> <<"test", "COLON", "test", "dosm_colon_list", "COMMA">>],
       [h |-> "p_dictorsetmaker6", l |-> "dictorsetmaker", r |-> <<"test", "comp_for">>],
       [h |-> "p_dictorsetmaker7", l |-> "dictorsetmaker", r |-> <<"test", "COMMA">>],
       [h |-> "p_dictorsetmaker8", l |-> "dictorsetmaker", r |-> <<"test", "dosm_comma_list">>],
       [h |-> "p_dictorsetmaker9", l |-> "dictorsetmaker", r |-> <<"test", "dosm_comma_list", "COMMA">>],
       [h |-> "p_dosm_colon_list1", l |-> "dosm_colon_list", r |-> <<"COMMA", "test", "COLON", "test">>],
       [h |-> "p_dosm_colon_list2", l |-> "dosm_colon_list", r |-> <<"dosm_colon_list", "COMMA", "test", "COLON", "test">>],
       [h |-> "p_dosm_comma_list1", l |-> "dosm_comma_list", r |-> <<"COMMA", "test">>],
       [h |-> "p_dosm_comma_list2", l |-> "dosm_comma_list", r |-> <<"dosm_comma_list", "COMMA", "test">>],
       [h |-> "p_arglist1", l |-> "arglist", r |-> <<"argument">>],
       [h |-> "p_argument1", l |-> "argument", r |-> <<"test">>],
       [h |-> "p_list_for1", l |-> "list_for", r |-> <<"FOR", "exprlist", "IN", "testlist_safe">>],
       [h |-> "p_list_for2", l |-> "list_for", r |-> <<"FOR", "exprlist", "IN", "testlist_safe", "list_iter">>],
       [h |-> "p_list_iter1", l |-> "list_iter", r |-> <<"list_for">>],
       [h |-> "p_list_iter2", l |-> "list_iter", r |-> <<"list_if">>],
       [h |-> "p_list_if1", l |-> "list_if", r |-> <<"IF", "old_test">>],
       [h |-> "p_list_if2", l |-> "list_if", r |-> <<"IF", "old_test", "list_iter">>],
       [h |-> "p_comp_for1", l |-> "comp_for", r |-> <<"FOR", "exprlist", "IN", "or_test">>],
       [h |-> "p_comp_for2", l |-> "comp_for", r |-> <<"FOR", "exprlist", "IN", "or_test", "comp_iter">>],
       [h |-> "p_comp_iter1", l |-> "comp_iter", r |-> <<"comp_for">>],
       [h |-> "p_comp_iter2", l |-> "comp_iter", r |-> <<"comp_if">>],
       [h |-> "p_comp_if1", l |-> "comp_if", r |-> <<"IF", "old_test">>],
       [h |-> "p_comp_if2", l |-> "comp_if", r |-> <<"IF", "old_test", "comp_iter">>],
       [h |-> "p_testlist_safe1", l |-> "testlist_safe", r |-> <<"old_test">>],
       [h |-> "p_old_test1", l |-> "old_test", r |-> <<"or_test">>],
       [h |-> "p_lambdef1", l |-> "lambdef", r |-> <<"LAMBDA", "COLON", "test">>],
       [h |-> "p_lambdef2", l |-> "lambdef", r |-> <<"LAMBDA", "varargslist", "COLON", "test">>],
       [h |-> "p_varargslist4", l |-> "varargslist", r |-> <<"fpdef">>],
       [h |-> "p_varargslist5", l |-> "varargslist", r |-> <<"fpdef", "COMMA">>],
       [h |-> "p_varargslist9", l |-> "varargslist", r |-> <<"fpdef", "varargslist_list">>],
       [h |-> "p_varargslist10", l |-> "varargslist", r |-> <<"fpdef", "varargslist_list", "COMMA">>],
       [h |-> "p_varargslist14", l |-> "varargslist", r |-> <<"fpdef", "EQUAL", "test">>],
       [h |-> "p_varargslist15", l |-> "varargslist", r |-> <<"fpdef", "EQUAL", "test", "COMMA">>],
       [h |-> "p_varargslist19", l |-> "varargslist", r |-> <<"fpdef", "EQUAL", "test", "varargslist_list">>],
       [h |-> "p_varargslist20", l |-> "varargslist", r |-> <<"fpdef", "EQUAL", "test", "varargslist_list", "COMMA">>],
       [h |-> "p_varargslist_list1", l |-> "varargslist_list", r |-> <<"COMMA", "fpdef">>],
       [h |-> "p_varargslist_list2", l |-> "varargslist_list", r |-> <<"COMMA", "fpdef", "EQUAL", "test">>],
       [h |-> "p_varargslist_list3", l |-> "varargslist_list", r |-> <<"varargslist_list", "COMMA", "fpdef">>],
       [h |-> "p_varargslist_list4", l |-> "varargslist_list", r |-> <<"varargslist_list", "COMMA", "fpdef", "EQUAL", "test">>],
       [h |-> "p_fpdef1", l |-> "fpdef", r |-> <<"NAME">>] >>

(***************************************************************************)
(* The automaton yacc.yacc() builds from the grammar. An item <<i, d>> is  *)
(* rule i with d symbols of its right side read; a state is the set of its *)
(* kernel items. The table is LALR(1): for this grammar the lookahead set *)
(* of every reduction is the set of the terminals that can follow the left *)
(* side of its rule, so a reduction is taken on any such token, whether or *)
(* not the parser can shift the token after it.                            *)
(***************************************************************************)
NonTerminals == { Grammar[i].l : i \in DOMAIN Grammar }

Symbols ==
    NonTerminals \cup {"$end"}
        \cup UNION { { Grammar[i].r[n] : n \in DOMAIN Grammar[i].r } : i \in DOMAIN Grammar }

\* The symbol after the dot of an item, "" when the rule is complete.
AfterDot(it) ==
    IF it[2] < Len(Grammar[it[1]].r) THEN Grammar[it[1]].r[it[2] + 1] ELSE ""

RECURSIVE LeftReach(_)
\* The non-terminals that can begin a derivation from one of S.
LeftReach(S) ==
    UNION { IF T = S THEN S ELSE LeftReach(T) :
              T \in { S \cup ({ Grammar[i].r[1] :
                                  i \in { j \in DOMAIN Grammar : Grammar[j].l \in S } }
                                \cap NonTerminals) } }

LeftCorners ==
    CHOOSE f \in { [A \in NonTerminals |-> LeftReach({A})] } : f = f

\* Starts[A][X]: the rules of the closure of an item expecting A that begin
\* with the symbol X.
Starts ==
    CHOOSE f \in { [A \in NonTerminals |->
                      [X \in Symbols |->
                         { j \in DOMAIN Grammar :
                             Grammar[j].l \in LeftCorners[A] /\ Grammar[j].r[1] = X }]] } :
        f = f

\* The state entered from the state K on the symbol X; {} when there is none.
Goto(K, X) ==
    { <<it[1], it[2] + 1>> : it \in { jt \in K : AfterDot(jt) = X } }
      \cup { <<j, 1>> : j \in UNION { Starts[AfterDot(it)][X] :
                                        it \in { jt \in K : AfterDot(jt) \in NonTerminals } } }

\* The rules complete in the state K, the added rule apart.
Completed(K) == { it[1] : it \in { jt \in K : AfterDot(jt) = "" } } \ {1}

\* The state stack after the reduction by rule r.
Reduced(stack, r) ==
    LET base == SubSeq(stack, 1, Len(stack) - Len(Grammar[r].r))
    IN  Append(base, Goto(base[Len(base)], Grammar[r].l))

\* The terminals that can begin a derivation from the symbol X; no rule has
\* an empty right side.
First(X) ==
    IF X \in NonTerminals
    THEN { Grammar[j].r[1] : j \in { i \in DOMAIN Grammar : Grammar[i].l \in LeftCorners[X] } }
            \ NonTerminals
    ELSE {X}

\* One round of the terminals that can follow each non-terminal: after an
\* occurrence comes what begins the next symbol of the rule, or, at the end
\* of the rule, what follows its left side.
FollowStep(F) ==
    [A \in NonTerminals |->
        F[A] \cup UNION { UNION { IF Grammar[i].r[n] # A THEN {}
                                   ELSE IF n < Len(Grammar[i].r)
                                   THEN First(Grammar[i].r[n + 1])
                                   ELSE F[Grammar[i].l] :
                                     n \in DOMAIN Grammar[i].r } :
                           i \in DOMAIN Grammar }]

RECURSIVE FollowFix(_)
FollowFix(F) ==
    CHOOSE R \in { IF G = F THEN F ELSE FollowFix(G) : G \in {FollowStep(F)} } : TRUE

\* Lookaheads[A]: the tokens on which the table reduces by a rule of A.
Lookaheads ==
    CHOOSE f \in { FollowFix([A \in NonTerminals |->
                                IF A = "S'" THEN {"$end"} ELSE {}]) } : f = f

\* The rules the table reduces by in the state K on the token type t.
Reductions(K, t) == { r \in Completed(K) : t \in Lookaheads[Grammar[r].l] }
(***************************************************************************)
(* The handlers. A handler takes p, the production object: p.v[i] is p[i], *)
(* p.lineno[i] is p.lineno(i) (the line of a token, 0 for a non-terminal,  *)
(* which has no line when positions are not tracked) and p.lexer is the    *)
(* lexer. It yields p[0], or the exception it raises.                      *)
(***************************************************************************)
\* The text of the binding operators, character by character.
Chars(op) ==
    CASE op = "=" -> <<"=">>
      [] op = ":=" -> <<":", "=">>
      [] op = "<<" -> <<"<", "<">>
      [] op = ">>" -> <<">", ">">>
      [] op = "::" -> <<":", ":">>

operator_table ==
    [c \in {"=", "<", ">", ":"} |->
        CASE c = "=" -> "Equal"
          [] c = "<" -> "Less"
          [] c = ">" -> "Greater"
          [] c = ":" -> "Colon"]

RECURSIVE Join(_)
\* ''.join(parts)
Join(parts) == IF parts = <<>> THEN "" ELSE Head(parts) \o Join(Tail(parts))

translate_operator_FirstCharOnly(op) ==
    Str("__operator_" \o operator_table[Chars(op.s)[1]] \o "__")

translate_operator(op) ==
    LET name == Join([i \in DOMAIN Chars(op.s) |-> operator_table[Chars(op.s)[i]]])
    IN  Str("__operator_" \o name \o "__")

raise_enaml_syntax_error(msg, lineno) ==
    Raise("EnamlSyntaxError", msg \o " - lineno (" \o ToString(lineno.n) \o ")")

\* lexer.raise_syntax_error(msg, filename, lineno): the structured syntax
\* error, which exposes the file name and the line beside the message.
raise_syntax_error(msg, filename, lineno) ==
    [k |-> "raise", exc |-> "SyntaxError", msg |-> msg,
     filename |-> filename, lineno |-> lineno]

\* filter(None, items)
FilterNone(items) == List(SelectSeq(items.v, Truthy))

\* The handlers of the form p[0] = p[1].
UnitRules ==
    { "p_enaml1", "p_enaml_module_item2", "p_enaml_module_item3", "p_declaration_body_item1",
      "p_declaration_body_item2", "p_declaration_body_item3",
      "p_instantiation_body_item1", "p_instantiation_body_item2",
      "p_test1", "p_test3", "p_or_test1", "p_and_test1", "p_not_test", "p_comparison1",
      "p_expr1", "p_xor_expr1", "p_and_expr1", "p_shift_expr1",
      "p_arith_expr1", "p_term1", "p_factor1", "p_power1",
      "p_subscriptlist1", "p_argument1", "p_testlist_comp2", "p_simple_stmt",
      "p_small_stmt1", "p_list_iter1", "p_list_iter2", "p_comp_iter1",
      "p_comp_iter2", "p_testlist_safe1", "p_old_test1",
      "p_enaml_module_item1", "p_dotted_name1" }

\* The handlers of the form p[0] = [p[1]].
ListStartRules ==
    { "p_enaml_module_body2", "p_declaration_body_items1",
      "p_instantiation_body_items1", "p_shift_list1", "p_arith_expr_list1",
      "p_term_list1", "p_power_list1", "p_testlist1", "p_testlist2",
      "p_simple_stmt_list2", "p_dosm_comma_list1",
      "p_import_from_dots1", "p_import_as_names1", "p_import_as_names2" }

\* The handlers of the form p[0] = p[1] + [p[2]].
ListAppendRules ==
    { "p_enaml_module_body1", "p_declaration_body_items2",
      "p_instantiation_body_items2", "p_shift_list2", "p_arith_expr_list2",
      "p_term_list2", "p_power_list2", "p_import_from_dots2" }

\* The handlers of a pass line: p[0] = None.
PassRules == { "p_declaration_body_item4", "p_instantiation_body_item3" }

\* enaml_ast.Module(doc, body, lineno)
Module(doc, body, lineno) ==
    [k |-> "Module", doc |-> doc, body |-> body, lineno |-> lineno]

p_enaml2(p) == Module(Str(""), List(<<>>), IntVal(-1))

p_enaml3_NoDocstring(p) == Module(Str(""), List(<<>>), IntVal(-1))

p_enaml3(p) == Module(p.v[1], List(<<>>), IntVal(-1))

p_enaml_module1(p) == Module(Str(""), p.v[1], IntVal(-1))

p_enaml_module2(p) == Module(p.v[1], p.v[3], IntVal(-1))

p_enaml_raw_python_NoPadding(p) ==
    LET parsed == ast_parse(p.v[3].lines, p.lexer.filename)
    IN  IF IsRaise(parsed)
        THEN raise_syntax_error("invalid syntax", parsed.filename, parsed.lineno)
        ELSE [k |-> "Python", py_ast |-> parsed, lineno |-> IntVal(p.lineno[1])]

p_enaml_raw_python(p) ==
    LET py_txt == p.v[3].lines
        compile_txt == NewLines(p.lineno[1]) \o py_txt
        parsed == ast_parse(compile_txt, p.lexer.filename)
    IN  IF IsRaise(parsed)
        THEN raise_syntax_error("invalid syntax", parsed.filename, parsed.lineno)
        ELSE [k |-> "Python", py_ast |-> parsed, lineno |-> IntVal(p.lineno[1])]

p_declaration(p) ==
    LET lineno == IntVal(p.lineno[1])
        doc    == p.v[6].v[1]
        idn    == p.v[6].v[2]
        items  == p.v[6].v[3]
    IN  [k |-> "Declaration", name |-> p.v[1],
         base |-> PythonExpression(Name(p.v[3]), lineno),
         identifier |-> idn, doc |-> doc, body |-> items, lineno |-> lineno]

\* The body kept as the items list holds it, pass lines included.
p_declaration_body1_Unfiltered(p) == Tuple(<<Str(""), None, p.v[3]>>)

p_declaration_body1(p) == Tuple(<<Str(""), None, FilterNone(p.v[3])>>)

p_declaration_body2(p) == Tuple(<<Str(""), p.v[3], List(<<>>)>>)

\* The body without the first of its items.
p_declaration_body3_DropsFirst(p) ==
    Tuple(<<Str(""), p.v[3], FilterNone(List(Tail(p.v[4].v)))>>)

p_declaration_body3(p) == Tuple(<<Str(""), p.v[3], FilterNone(p.v[4])>>)

p_declaration_body4_NoDocstring(p) == Tuple(<<Str(""), None, FilterNone(p.v[5])>>)

p_declaration_body4(p) == Tuple(<<p.v[3], None, FilterNone(p.v[5])>>)

p_declaration_body5(p) == Tuple(<<p.v[3], p.v[5], List(<<>>)>>)

p_declaration_body6(p) == Tuple(<<p.v[3], p.v[5], FilterNone(p.v[6])>>)

\* enaml_ast.AttributeDeclaration(name, type, default, is_event, lineno)
AttributeDeclaration(name, type_node, default, is_event, lineno) ==
    [k |-> "AttributeDeclaration", name |-> name, type |-> type_node,
     default |-> default, is_event |-> is_event, lineno |-> lineno]

\* Every keyword taken for 'event' when it is not 'attr'.
build_attr_declaration_AnyKeyword(kw, name, type_node, default, lineno, p) ==
    IF kw = Str("attr") THEN
        AttributeDeclaration(name, type_node, default, Bool(FALSE), lineno)
    ELSE AttributeDeclaration(name, type_node, default, Bool(TRUE), lineno)

build_attr_declaration(kw, name, type_node, default, lineno, p) ==
    IF kw \notin {Str("attr"), Str("event")} THEN
        raise_syntax_error(
            "Expected keyword 'attr' or 'event', got '" \o kw.s \o "' instead.",
            p.lexer.filename, lineno)
    ELSE IF kw = Str("attr") THEN
        AttributeDeclaration(name, type_node, default, Bool(FALSE), lineno)
    ELSE AttributeDeclaration(name, type_node, default, Bool(TRUE), lineno)

\* enaml_ast.AttributeBinding(name, binding, lineno)
AttributeBinding(name, binding, lineno) ==
    [k |-> "AttributeBinding", name |-> name, binding |-> binding,
     lineno |-> lineno]

p_attribute_declaration1(p) ==
    build_attr_declaration(p.v[1], p.v[2], None, None, IntVal(p.lineno[1]), p)

p_attribute_declaration2(p) ==
    LET lineno == IntVal(p.lineno[1])
    IN  build_attr_declaration(p.v[1], p.v[2],
                               PythonExpression(Name(p.v[4]), lineno), None,
                               IntVal(p.lineno[1]), p)

p_attribute_declaration3(p) ==
    LET lineno == IntVal(p.lineno[1])
    IN  build_attr_declaration(p.v[1], p.v[2], None,
                               AttributeBinding(p.v[2], p.v[3], lineno), lineno, p)

p_attribute_declaration4(p) ==
    LET lineno == IntVal(p.lineno[1])
    IN  build_attr_declaration(p.v[1], p.v[2],
                               PythonExpression(Name(p.v[4]), lineno),
                               AttributeBinding(p.v[2], p.v[5], lineno), lineno, p)

\* Any left name taken for 'id'.
p_identifier_AnyName(p) == p.v[3]

p_identifier(p) ==
    IF p.v[1] # Str("id") THEN
        raise_enaml_syntax_error("'id' required. Got '" \o p.v[1].s \o "' instead.",
                                 IntVal(p.lineno[1]))
    ELSE p.v[3]

p_instantiation(p) ==
    [k |-> "Instantiation", name |-> p.v[1], identifier |-> p.v[3].v[1],
     body |-> p.v[3].v[2], lineno |-> IntVal(p.lineno[1])]

p_instantiation_body1(p) == Tuple(<<None, FilterNone(p.v[3])>>)

p_instantiation_body2(p) == Tuple(<<p.v[3], List(<<>>)>>)

p_instantiation_body3(p) == Tuple(<<p.v[3], FilterNone(p.v[4])>>)

p_attribute_binding(p) == AttributeBinding(p.v[1], p.v[2], IntVal(p.lineno[1]))

p_binding1(p) ==
    LET lineno == IntVal(p.lineno[1])
    IN  [k |-> "BoundExpression", op |-> translate_operator(p.v[1]),
         expr |-> PythonExpression(p.v[2], lineno), lineno |-> lineno]

\* ast.BinOp(left=..., op=..., right=...)
BinOp(left, op, right) == [k |-> "BinOp", left |-> left, op |-> op, right |-> right]

\* ast.UnaryOp(op=..., operand=...)
UnaryOp(op, operand) == [k |-> "UnaryOp", op |-> op, operand |-> operand]

\* p[i] on a production of fewer than i symbols: the slice has no such item.
Item(p, i) ==
    IF i \in DOMAIN p.v THEN p.v[i] ELSE Raise("IndexError", "list index out of range")

p_or_test2(p) ==
    [k |-> "BoolOp", op |-> [k |-> "Or"], values |-> List(<<p.v[1]>> \o p.v[2].v)]

p_and_test2(p) ==
    [k |-> "BoolOp", op |-> [k |-> "And"], values |-> List(<<p.v[1]>> \o p.v[2].v)]

\* p_or_test_list1, p_and_test_list1: p[0] = [p[2]]
p_or_test_list1(p) == List(<<p.v[2]>>)

\* p_or_test_list2, p_and_test_list2: p[0] = p[1] + [p[3]]
p_or_test_list2(p) == List(Append(p.v[1].v, p.v[3]))

p_not_test2(p) == UnaryOp([k |-> "Not"], p.v[2])

\* ops, comparators = zip(*p[2])
p_comparison2(p) ==
    [k |-> "Compare", left |-> p.v[1],
     ops |-> List([i \in DOMAIN p.v[2].v |-> p.v[2].v[i].v[1]]),
     comparators |-> List([i \in DOMAIN p.v[2].v |-> p.v[2].v[i].v[2]])]

p_comparison_list1(p) == List(<<List(<<p.v[1], p.v[2]>>)>>)

p_comparison_list2(p) == List(Append(p.v[1].v, List(<<p.v[2], p.v[3]>>)))

\* p_comp_op1 .. p_comp_op10: the operator node each one makes.
comp_op ==
    [ p_comp_op1 |-> "Lt", p_comp_op2 |-> "Gt", p_comp_op3 |-> "Eq",
      p_comp_op4 |-> "GtE", p_comp_op5 |-> "LtE", p_comp_op6 |-> "NotEq",
      p_comp_op7 |-> "In", p_comp_op8 |-> "NotIn", p_comp_op9 |-> "Is",
      p_comp_op10 |-> "IsNot" ]

RECURSIVE FoldBinOp(_, _, _)
\* for op, right in items: node = ast.BinOp(left=node, op=op, right=right),
\* from item i on.
FoldBinOp(node, items, i) ==
    IF i > Len(items) THEN node
    ELSE FoldBinOp(BinOp(node, items[i].v[1], items[i].v[2]), items, i + 1)

\* p_expr2, p_xor_expr2, p_and_expr2, p_shift_expr2, p_arith_expr2, p_term2
\* have this one body.
p_expr2(p) == FoldBinOp(p.v[1], p.v[2].v, 1)

p_expr_list1(p) == List(<<List(<<[k |-> "BitOr"], p.v[2]>>)>>)

p_expr_list2(p) == List(Append(p.v[1].v, List(<<[k |-> "BitOr"], p.v[3]>>)))

\* Line 1022 takes p[1], the text of the CIRCUMFLEX token, for the operand.
p_xor_expr_list1(p) == List(<<List(<<[k |-> "BitXor"], p.v[1]>>)>>)

p_xor_expr_list2(p) == List(Append(p.v[1].v, List(<<[k |-> "BitXor"], p.v[3]>>)))

\* Line 1045 takes p[3] of a rule of two symbols.
p_and_expr_list1(p) ==
    IF IsRaise(Item(p, 3)) THEN Item(p, 3)
    ELSE List(<<List(<<[k |-> "BitAnd"], Item(p, 3)>>)>>)

p_and_expr_list2(p) == List(Append(p.v[1].v, List(<<[k |-> "BitAnd"], p.v[3]>>)))

\* p_shift_op1/2, p_arith_op1/2, p_term_op1..4: p[0] = [ast.<op>(), p[2]]
binary_op ==
    [ p_shift_op1 |-> "LShift", p_shift_op2 |-> "RShift",
      p_arith_op1 |-> "Add", p_arith_op2 |-> "Sub",
      p_term_op1 |-> "Mult", p_term_op2 |-> "Div", p_term_op3 |-> "Mod",
      p_term_op4 |-> "FloorDiv" ]

\* p_factor2..4: p[0] = ast.UnaryOp(op=ast.<op>(), operand=p[2])
unary_op ==
    [ p_factor2 |-> "UAdd", p_factor3 |-> "USub", p_factor4 |-> "Invert" ]

p_power2(p) == BinOp(p.v[1], [k |-> "Pow"], p.v[3])

RECURSIVE FoldTrailers(_, _, _)
RECURSIVE FoldTrailers_FromLast(_, _, _)
\* The loop run from the last trailer to the first.
FoldTrailers_FromLast(root, trailers, i) ==
    IF i > Len(trailers) THEN root
    ELSE LET t == trailers[Len(trailers) + 1 - i]
         IN  FoldTrailers_FromLast(
                 SetAttr(t, IF t.k = "Call" THEN "func" ELSE "value", root),
                 trailers, i + 1)

\* The loop of p_power3 and p_power4 from trailer i on: each trailer takes
\* the root built so far for its func or value and becomes the root.
FoldTrailers(root, trailers, i) ==
    IF i > Len(trailers) THEN root
    ELSE IF trailers[i].k = "Call" THEN
        FoldTrailers(SetAttr(trailers[i], "func", root), trailers, i + 1)
    ELSE IF trailers[i].k \in {"Attribute", "Subscript"} THEN
        FoldTrailers(SetAttr(trailers[i], "value", root), trailers, i + 1)
    ELSE Raise("TypeError", "Unexpected trailer node")

p_power3(p) == FoldTrailers(p.v[1], p.v[2].v, 1)

p_power4(p) ==
    LET root == FoldTrailers(p.v[1], p.v[2].v, 1)
    IN  IF IsRaise(root) THEN root ELSE BinOp(root, [k |-> "Pow"], p.v[4])

p_atom7(p) == Name(p.v[1])

p_trailer4(p) == [k |-> "Attribute", attr |-> p.v[2], ctx |-> Load]

p_trailer3(p) == [k |-> "Subscript", slice |-> p.v[2], ctx |-> Load]

\* ast.ExtSlice(dims=...)
ExtSlice(dims) == [k |-> "ExtSlice", dims |-> dims]

p_subscriptlist2(p) == ExtSlice(List(<<p.v[1]>>))

p_subscriptlist3(p) == ExtSlice(List(<<p.v[1]>> \o p.v[2].v))

p_subscriptlist4(p) == ExtSlice(List(<<p.v[1]>> \o p.v[2].v))

p_subscriptlist_list1(p) == List(<<p.v[2]>>)

p_subscript_list2(p) == List(p.v[1].v \o <<p.v[2]>>)

p_subscript1(p) == [k |-> "Ellipsis"]

p_subcript2(p) == [k |-> "Index", value |-> p.v[1]]

\* The name None that stands for the step after a second colon.
NoneName == Name(Str("None"))

p_subscript3(p) == [k |-> "Slice", lower |-> None, upper |-> None, step |-> None]

p_subscript4(p) == [k |-> "Slice", lower |-> None, upper |-> None, step |-> NoneName]

\* The keyword is written uppper: the node gets an attribute of that name
\* and no upper.
p_subscript5(p) == [k |-> "Slice", lower |-> p.v[1], uppper |-> None, step |-> None]

p_subscrip6(p) == [k |-> "Slice", lower |-> p.v[1], upper |-> None, step |-> NoneName]

p_subscript7(p) == [k |-> "Slice", lower |-> None, upper |-> p.v[2], step |-> None]

p_subscript8(p) == [k |-> "Slice", lower |-> None, upper |-> p.v[2], step |-> NoneName]

p_subscript9(p) == [k |-> "Slice", lower |-> None, upper |-> None, step |-> p.v[2]]

p_subscript10(p) == [k |-> "Slice", lower |-> p.v[1], uppper |-> p.v[3], step |-> None]

p_subscript11(p) == [k |-> "Slice", lower |-> p.v[1], upper |-> p.v[3], step |-> NoneName]

p_subscript12(p) == [k |-> "Slice", lower |-> None, upper |-> p.v[2], step |-> p.v[4]]

p_subscript13(p) == [k |-> "Slice", lower |-> p.v[1], upper |-> p.v[3], step |-> p.v[5]]

p_subscript14(p) == [k |-> "Slice", lower |-> p.v[1], upper |-> None, step |-> p.v[3]]


(***************************************************************************)
(* Calls.                                                                  *)
(***************************************************************************)
p_trailer1(p) ==
    [k |-> "Call", args |-> List(<<>>), keywords |-> List(<<>>),
     starargs |-> None, kwargs |-> None]

p_trailer2(p) ==
    [k |-> "Call", args |-> p.v[2].args, keywords |-> p.v[2].keywords,
     starargs |-> p.v[2].starargs, kwargs |-> p.v[2].kwargs]

\* The helper object Arguments(args, keywords, starargs, kwargs).
Arguments(args, keywords, starargs, kwargs) ==
    [k |-> "Arguments", args |-> args, keywords |-> keywords,
     starargs |-> starargs, kwargs |-> kwargs]

p_arglist1(p) ==
    IF p.v[1].k = "keyword"
    THEN Arguments(List(<<>>), List(<<p.v[1]>>), None, None)
    ELSE Arguments(List(<<p.v[1]>>), List(<<>>), None, None)

(***************************************************************************)
(* Displays and test lists.                                                *)
(***************************************************************************)
\* The helper object CommaSeparatedList(values).
CommaSeparatedList(values) == [k |-> "CommaSeparatedList", values |-> values]

\* The helper object GeneratorInfo(elt, generators).
GeneratorInfo(elt, generators) ==
    [k |-> "GeneratorInfo", elt |-> elt, generators |-> generators]

p_atom1(p) == [k |-> "Tuple", elts |-> List(<<>>), ctx |-> Load]

p_atom2(p) ==
    LET info == p.v[2]
    IN  IF info.k = "CommaSeparatedList" THEN
            [k |-> "Tuple", elts |-> info.values, ctx |-> Load]
        ELSE IF info.k = "GeneratorInfo" THEN
            [k |-> "GeneratorExp", elt |-> info.elt, generators |-> info.generators]
        ELSE info

p_atom3(p) == [k |-> "List", elts |-> List(<<>>), ctx |-> Load]

p_atom4(p) ==
    LET info == p.v[2]
    IN  IF info.k = "CommaSeparatedList" THEN
            [k |-> "List", elts |-> info.values, ctx |-> Load]
        ELSE IF info.k = "GeneratorInfo" THEN
            [k |-> "ListComp", elt |-> info.elt, generators |-> info.generators]
        ELSE Raise("TypeError", "Unexpected node for listmaker")

p_atom5(p) == [k |-> "Dict", keys |-> List(<<>>), values |-> List(<<>>)]

\* isinstance(x, tuple); zip(*info.values) splits the pairs into the keys and
\* the values.
p_atom6(p) ==
    LET info == p.v[2]
    IN  IF info.k = "GeneratorInfo" THEN
            IF info.elt.k = "tuple" THEN
                [k |-> "DictComp", key |-> info.elt.v[1], value |-> info.elt.v[2],
                 generators |-> info.generators]
            ELSE [k |-> "SetComp", elt |-> info.elt, generators |-> info.generators]
        ELSE IF info.k = "CommaSeparatedList" THEN
            IF info.values.v[1].k = "tuple" THEN
                [k |-> "Dict",
                 keys |-> List([i \in DOMAIN info.values.v |-> info.values.v[i].v[1]]),
                 values |-> List([i \in DOMAIN info.values.v |-> info.values.v[i].v[2]])]
            ELSE [k |-> "Set", elts |-> info.values]
        ELSE Raise("TypeError", "Unexpected node for dictorsetmaker")

\* p_dictorsetmaker2, p_dictorsetmaker3: one pair.
p_dictorsetmaker2(p) == CommaSeparatedList(List(<< Tuple(<<p.v[1], p.v[3]>>) >>))

\* p_dictorsetmaker4, p_dictorsetmaker5: values = [(p[1], p[3])] + p[4]
p_dictorsetmaker4(p) ==
    CommaSeparatedList(List(<< Tuple(<<p.v[1], p.v[3]>>) >> \o p.v[4].v))

p_dosm_colon_list1(p) == List(<< Tuple(<<p.v[2], p.v[4]>>) >>)

p_dosm_colon_list2(p) == List(p.v[1].v \o << Tuple(<<p.v[3], p.v[5]>>) >>)

\* p_listmaker2, p_listmaker3, p_testlist_comp3, p_dictorsetmaker7: one value.
p_listmaker2(p) == CommaSeparatedList(List(<<p.v[1]>>))

\* p_listmaker4, p_listmaker5, p_testlist_comp4, p_testlist_comp5,
\* p_dictorsetmaker8, p_dictorsetmaker9:
\* values = [p[1]] + p[2]
p_listmaker4(p) == CommaSeparatedList(List(<<p.v[1]>> \o p.v[2].v))

\* p_testlist3, p_testlist4: p[0] = [p[1]] + p[2]
p_testlist3(p) == List(<<p.v[1]>> \o p.v[2].v)

\* p_testlist_list1, p_listmaker_list1, p_testlist_comp_list1: p[0] = [p[2]]
p_testlist_list1(p) == List(<<p.v[2]>>)

\* p_testlist_list2, p_listmaker_list2, p_testlist_comp_list2:
\* p[0] = p[1] + [p[3]]
p_testlist_list2(p) == List(Append(p.v[1].v, p.v[3]))

(***************************************************************************)
(* Statements and the bindings that hold them.                             *)
(***************************************************************************)
\* ast.comprehension(target=..., iter=..., ifs=...)
comprehension(tgt, iter, ifs) ==
    [k |-> "comprehension", target |-> tgt, iter |-> iter, ifs |-> ifs]

\* p_listmaker1, p_testlist_comp1, p_dictorsetmaker6:
\* GeneratorInfo(elt=p[1], generators=p[2])
p_listmaker1(p) == GeneratorInfo(p.v[1], p.v[2])

p_dictorsetmaker1(p) == GeneratorInfo(Tuple(<<p.v[1], p.v[3]>>), p.v[4])

\* p_comp_for1, p_list_for1: one generator without conditions.
p_comp_for1(p) == List(<< comprehension(p.v[2], p.v[4], List(<<>>)) >>)

RECURSIVE AddClauses(_, _, _)
\* for item in p[5]: a comprehension is one more generator, anything else is
\* one more condition of the last generator.
AddClauses(gens, items, i) ==
    IF i > Len(items) THEN gens
    ELSE IF items[i].k = "comprehension"
         THEN AddClauses(Append(gens, items[i]), items, i + 1)
         ELSE AddClauses([gens EXCEPT ![Len(gens)].ifs = List(Append(@.v, items[i]))],
                         items, i + 1)

\* p_comp_for2, p_list_for2
p_comp_for2(p) ==
    List(AddClauses(<< comprehension(p.v[2], p.v[4], List(<<>>)) >>, p.v[5].v, 1))

\* The condition put after the clauses that follow it.
p_comp_if2_ConditionLast(p) == List(p.v[3].v \o <<p.v[2]>>)

\* p_comp_if2, p_list_if2: p[0] = [p[2]] + p[3]
p_comp_if2(p) == List(<<p.v[2]>> \o p.v[3].v)

\* set_store_ctxt(expr) raises or leaves the context Store on the target.
p_exprlist1(p) ==
    LET stored == set_store_ctxt(p.v[1])
    IN  IF stored.raised # None THEN stored.raised ELSE stored.node

\* The tuple of the targets: tup = ast.Tuple(); tup.elts = exprs;
\* set_store_ctxt(tup).
StoredTuple(exprs) ==
    LET stored == set_store_ctxt([k |-> "Tuple", elts |-> List(exprs)])
    IN  IF stored.raised # None THEN stored.raised ELSE stored.node

p_exprlist2(p) == StoredTuple(<<p.v[1]>>)

\* p_exprlist3, p_exprlist4
p_exprlist3(p) == StoredTuple(<<p.v[1]>> \o p.v[2].v)

\* The value of a statement: the tuple of the values written, or the only
\* one; value.ctx = ast.Load() is set on it either way.
StmtValue(rhs) ==
    IF Len(rhs.v) > 1 THEN [k |-> "Tuple", elts |-> rhs, ctx |-> Load]
    ELSE SetAttr(rhs.v[1], "ctx", Load)

p_expr_stmt1(p) == [k |-> "Expr", value |-> StmtValue(p.v[1])]

\* The right side taken for a target too.
p_expr_stmt2_StoresValue(p) ==
    LET lineno == IntVal(p.lineno[2])
        stored == set_store_items([k |-> "lhs", elts |-> p.v[1]], 1)
    IN  IF stored.raised # None THEN stored.raised
        ELSE fix_missing_locations(
                 [k |-> "Assign", targets |-> stored.node.elts,
                  value |-> set_store_ctxt(StmtValue(p.v[3])).node, lineno |-> lineno])

\* for item in lhs: set_store_ctxt(item) is the loop of set_store_ctxt over
\* the items of a display, run here over the list lhs.
p_expr_stmt2(p) ==
    LET lineno == IntVal(p.lineno[2])
        stored == set_store_items([k |-> "lhs", elts |-> p.v[1]], 1)
    IN  IF stored.raised # None THEN stored.raised
        ELSE fix_missing_locations(
                 [k |-> "Assign", targets |-> stored.node.elts,
                  value |-> StmtValue(p.v[3]), lineno |-> lineno])

p_simple_stmt_line(p) ==
    fix_missing_locations(SetAttr(p.v[1], "lineno", IntVal(p.lineno[1])))

p_simple_stmt_list1(p) == List(<<p.v[1]>> \o p.v[2].v)

p_simple_stmt_suite(p) == p.v[3]

\* p_binding2 and p_binding3: the statements are the body of an ast.Module.
BoundStatements(p, body) ==
    LET lineno == IntVal(p.lineno[1])
    IN  [k |-> "BoundExpression", op |-> translate_operator(p.v[1]),
         expr |-> [k |-> "Python", py_ast |-> [k |-> "Module", body |-> body],
                   lineno |-> lineno],
         lineno |-> lineno]

p_binding2(p) == BoundStatements(p, List(<<p.v[2]>>))

p_binding3(p) == BoundStatements(p, p.v[2])

(***************************************************************************)
(* The import rules.                                                       *)
(***************************************************************************)
\* ast.alias(name=..., asname=...)
alias(name, asname) == [k |-> "alias", name |-> name, asname |-> asname]

\* imprt = ast.ImportFrom(module=..., names=..., level=...);
\* imprt.col_offset = 0
ImportFrom(module, names, level) ==
    [k |-> "ImportFrom", module |-> module, names |-> names, level |-> level,
     col_offset |-> IntVal(0)]

p_import_stmt2(p) ==
    fix_missing_locations(SetAttr(p.v[1], "lineno", IntVal(p.lineno[2])))

p_enaml_import(p) ==
    [k |-> "Python", py_ast |-> [k |-> "Module", body |-> List(<<p.v[1]>>)],
     lineno |-> p.v[1].lineno]

p_import_from1(p) == ImportFrom(p.v[2], List(<< alias(p.v[4], None) >>), IntVal(0))

p_import_from2(p) == ImportFrom(p.v[2], p.v[4], IntVal(0))

p_import_from3(p) == ImportFrom(p.v[2], p.v[5], IntVal(0))

p_import_from4(p) ==
    ImportFrom(p.v[3], List(<< alias(p.v[5], None) >>), IntVal(Len(p.v[2].v)))

p_import_from5(p) == ImportFrom(p.v[3], p.v[5], IntVal(Len(p.v[2].v)))

p_import_from6(p) == ImportFrom(p.v[3], p.v[6], IntVal(Len(p.v[2].v)))

p_import_from7(p) ==
    ImportFrom(None, List(<< alias(p.v[4], None) >>), IntVal(Len(p.v[2].v)))

p_import_from8(p) == ImportFrom(None, p.v[4], IntVal(Len(p.v[2].v)))

p_import_from9(p) == ImportFrom(None, p.v[5], IntVal(Len(p.v[2].v)))

p_import_as_name1(p) == alias(p.v[1], None)

(***************************************************************************)
(* Lambdas and their parameter lists.                                      *)
(***************************************************************************)
Param == [k |-> "Param"]

arguments(args, defaults, vararg, kwarg) ==
    [k |-> "arguments", args |-> List(args), defaults |-> List(defaults),
     vararg |-> vararg, kwarg |-> kwarg]

p_lambdef1(p) == [k |-> "Lambda", args |-> arguments(<<>>, <<>>, None, None), body |-> p.v[3]]

p_lambdef2(p) == [k |-> "Lambda", args |-> p.v[2], body |-> p.v[4]]

p_fpdef1(p) == [k |-> "Name", id |-> p.v[1], ctx |-> Param]

\* p_varargslist4, p_varargslist5
p_varargslist4(p) == arguments(<<p.v[1]>>, <<>>, None, None)

\* p_varargslist9, p_varargslist10: list_args, defaults = p[2].
p_varargslist9(p) == arguments(<<p.v[1]>> \o p.v[2].v[1].v, p.v[2].v[2].v, None, None)

\* p_varargslist14, p_varargslist15
p_varargslist14(p) == arguments(<<p.v[1]>>, <<p.v[3]>>, None, None)

\* p_varargslist19, p_varargslist20: list_args, list_defaults = p[4].
p_varargslist19(p) ==
    arguments(<<p.v[1]>> \o p.v[4].v[1].v, <<p.v[3]>> \o p.v[4].v[2].v, None, None)

p_varargslist_list1(p) == Tuple(<< List(<<p.v[2]>>), List(<<>>) >>)

p_varargslist_list2(p) == Tuple(<< List(<<p.v[2]>>), List(<<p.v[4]>>) >>)

p_varargslist_list3(p) ==
    IF p.v[1].v[2].v # <<>>
    THEN Raise("SyntaxError", "non-default argument follows default argument.")
    ELSE Tuple(<< List(p.v[1].v[1].v \o <<p.v[3]>>), p.v[1].v[2] >>)

p_varargslist_list4(p) ==
    Tuple(<< List(p.v[1].v[1].v \o <<p.v[3]>>), List(p.v[1].v[2].v \o <<p.v[5]>>) >>)
\* The handler h run on the production p.
Handle(h, p) ==
    CASE h \in UnitRules -> p.v[1]
      [] h \in ListStartRules -> List(<<p.v[1]>>)
      [] h \in ListAppendRules -> List(Append(p.v[1].v, p.v[2]))
      [] h \in PassRules -> None
      [] h = "p_enaml2" -> p_enaml2(p)
      [] h = "p_enaml3" -> p_enaml3(p)
      [] h = "p_enaml_module1" -> p_enaml_module1(p)
      [] h = "p_enaml_module2" -> p_enaml_module2(p)
      [] h = "p_enaml_raw_python" -> p_enaml_raw_python(p)
      [] h = "p_declaration" -> p_declaration(p)
      [] h = "p_declaration_body1" -> p_declaration_body1(p)
      [] h = "p_declaration_body2" -> p_declaration_body2(p)
      [] h = "p_declaration_body3" -> p_declaration_body3(p)
      [] h = "p_declaration_body4" -> p_declaration_body4(p)
      [] h = "p_declaration_body5" -> p_declaration_body5(p)
      [] h = "p_declaration_body6" -> p_declaration_body6(p)
      [] h = "p_attribute_declaration1" -> p_attribute_declaration1(p)
      [] h = "p_attribute_declaration2" -> p_attribute_declaration2(p)
      [] h = "p_attribute_declaration3" -> p_attribute_declaration3(p)
      [] h = "p_attribute_declaration4" -> p_attribute_declaration4(p)
      [] h = "p_identifier" -> p_identifier(p)
      [] h = "p_instantiation" -> p_instantiation(p)
      [] h = "p_instantiation_body1" -> p_instantiation_body1(p)
      [] h = "p_instantiation_body2" -> p_instantiation_body2(p)
      [] h = "p_instantiation_body3" -> p_instantiation_body3(p)
      [] h = "p_attribute_binding" -> p_attribute_binding(p)
      [] h = "p_binding1" -> p_binding1(p)
      [] h = "p_or_test2" -> p_or_test2(p)
      [] h = "p_and_test2" -> p_and_test2(p)
      [] h \in {"p_or_test_list1", "p_and_test_list1"} -> p_or_test_list1(p)
      [] h \in {"p_or_test_list2", "p_and_test_list2"} -> p_or_test_list2(p)
      [] h = "p_not_test2" -> p_not_test2(p)
      [] h = "p_comparison2" -> p_comparison2(p)
      [] h = "p_comparison_list1" -> p_comparison_list1(p)
      [] h = "p_comparison_list2" -> p_comparison_list2(p)
      [] h \in DOMAIN comp_op -> [k |-> comp_op[h]]
      [] h \in {"p_expr2", "p_xor_expr2", "p_and_expr2", "p_shift_expr2",
                "p_arith_expr2", "p_term2"} -> p_expr2(p)
      [] h = "p_expr_list1" -> p_expr_list1(p)
      [] h = "p_expr_list2" -> p_expr_list2(p)
      [] h = "p_xor_expr_list1" -> p_xor_expr_list1(p)
      [] h = "p_xor_expr_list2" -> p_xor_expr_list2(p)
      [] h = "p_and_expr_list1" -> p_and_expr_list1(p)
      [] h = "p_and_expr_list2" -> p_and_expr_list2(p)
      [] h \in DOMAIN binary_op -> List(<<[k |-> binary_op[h]], p.v[2]>>)
      [] h \in DOMAIN unary_op -> UnaryOp([k |-> unary_op[h]], p.v[2])
      [] h = "p_power2" -> p_power2(p)
      [] h = "p_power3" -> p_power3(p)
      [] h = "p_power4" -> p_power4(p)
      [] h = "p_atom7" -> p_atom7(p)
      [] h = "p_trailer4" -> p_trailer4(p)
      [] h = "p_trailer3" -> p_trailer3(p)
      [] h = "p_subscriptlist2" -> p_subscriptlist2(p)
      [] h = "p_subscriptlist3" -> p_subscriptlist3(p)
      [] h = "p_subscriptlist4" -> p_subscriptlist4(p)
      [] h = "p_subscriptlist_list1" -> p_subscriptlist_list1(p)
      [] h = "p_subscript_list2" -> p_subscript_list2(p)
      [] h = "p_subscript1" -> p_subscript1(p)
      [] h = "p_subcript2" -> p_subcript2(p)
      [] h = "p_subscript3" -> p_subscript3(p)
      [] h = "p_subscript4" -> p_subscript4(p)
      [] h = "p_subscript5" -> p_subscript5(p)
      [] h = "p_subscrip6" -> p_subscrip6(p)
      [] h = "p_subscript7" -> p_subscript7(p)
      [] h = "p_subscript8" -> p_subscript8(p)
      [] h = "p_subscript9" -> p_subscript9(p)
      [] h = "p_subscript10" -> p_subscript10(p)
      [] h = "p_subscript11" -> p_subscript11(p)
      [] h = "p_subscript12" -> p_subscript12(p)
      [] h = "p_subscript13" -> p_subscript13(p)
      [] h = "p_subscript14" -> p_subscript14(p)
      [] h = "p_trailer1" -> p_trailer1(p)
      [] h = "p_trailer2" -> p_trailer2(p)
      [] h = "p_arglist1" -> p_arglist1(p)
      [] h = "p_atom1" -> p_atom1(p)
      [] h = "p_atom2" -> p_atom2(p)
      [] h = "p_atom3" -> p_atom3(p)
      [] h = "p_atom4" -> p_atom4(p)
      [] h \in {"p_listmaker1", "p_testlist_comp1", "p_dictorsetmaker6"} -> p_listmaker1(p)
      [] h = "p_dictorsetmaker1" -> p_dictorsetmaker1(p)
      [] h \in {"p_comp_for1", "p_list_for1"} -> p_comp_for1(p)
      [] h \in {"p_comp_for2", "p_list_for2"} -> p_comp_for2(p)
      [] h \in {"p_comp_if2", "p_list_if2"} -> p_comp_if2(p)
      [] h = "p_exprlist1" -> p_exprlist1(p)
      [] h = "p_exprlist2" -> p_exprlist2(p)
      [] h \in {"p_exprlist3", "p_exprlist4"} -> p_exprlist3(p)
      [] h = "p_import_stmt2" -> p_import_stmt2(p)
      [] h = "p_enaml_import" -> p_enaml_import(p)
      [] h = "p_import_from1" -> p_import_from1(p)
      [] h = "p_import_from2" -> p_import_from2(p)
      [] h = "p_import_from3" -> p_import_from3(p)
      [] h = "p_import_from4" -> p_import_from4(p)
      [] h = "p_import_from5" -> p_import_from5(p)
      [] h = "p_import_from6" -> p_import_from6(p)
      [] h = "p_import_from7" -> p_import_from7(p)
      [] h = "p_import_from8" -> p_import_from8(p)
      [] h = "p_import_from9" -> p_import_from9(p)
      [] h = "p_import_as_name1" -> p_import_as_name1(p)
      [] h = "p_lambdef1" -> p_lambdef1(p)
      [] h = "p_lambdef2" -> p_lambdef2(p)
      [] h = "p_fpdef1" -> p_fpdef1(p)
      [] h \in {"p_varargslist4", "p_varargslist5"} -> p_varargslist4(p)
      [] h \in {"p_varargslist9", "p_varargslist10"} -> p_varargslist9(p)
      [] h \in {"p_varargslist14", "p_varargslist15"} -> p_varargslist14(p)
      [] h \in {"p_varargslist19", "p_varargslist20"} -> p_varargslist19(p)
      [] h = "p_varargslist_list1" -> p_varargslist_list1(p)
      [] h = "p_varargslist_list2" -> p_varargslist_list2(p)
      [] h = "p_varargslist_list3" -> p_varargslist_list3(p)
      [] h = "p_varargslist_list4" -> p_varargslist_list4(p)
      [] h = "p_atom5" -> p_atom5(p)
      [] h = "p_atom6" -> p_atom6(p)
      [] h \in {"p_dictorsetmaker2", "p_dictorsetmaker3"} -> p_dictorsetmaker2(p)
      [] h \in {"p_dictorsetmaker4", "p_dictorsetmaker5"} -> p_dictorsetmaker4(p)
      [] h = "p_dosm_colon_list1" -> p_dosm_colon_list1(p)
      [] h = "p_dosm_colon_list2" -> p_dosm_colon_list2(p)
      [] h \in {"p_listmaker2", "p_listmaker3", "p_testlist_comp3",
                "p_dictorsetmaker7"} -> p_listmaker2(p)
      [] h \in {"p_listmaker4", "p_listmaker5", "p_testlist_comp4",
                "p_testlist_comp5", "p_dictorsetmaker8",
                "p_dictorsetmaker9"} -> p_listmaker4(p)
      [] h \in {"p_testlist3", "p_testlist4", "p_import_as_names3",
                "p_import_as_names4"} -> p_testlist3(p)
      [] h \in {"p_testlist_list1", "p_listmaker_list1", "p_testlist_comp_list1",
                "p_exprlist_list1", "p_comp_if1", "p_list_if1",
                "p_import_as_names_list1"} -> p_testlist_list1(p)
      [] h \in {"p_testlist_list2", "p_listmaker_list2",
                "p_testlist_comp_list2", "p_dosm_comma_list2",
                "p_exprlist_list2", "p_import_as_names_list2"} -> p_testlist_list2(p)
      [] h = "p_expr_stmt1" -> p_expr_stmt1(p)
      [] h = "p_expr_stmt2" -> p_expr_stmt2(p)
      [] h = "p_simple_stmt_line" -> p_simple_stmt_line(p)
      [] h = "p_simple_stmt_list1" -> p_simple_stmt_list1(p)
      [] h = "p_simple_stmt_suite" -> p_simple_stmt_suite(p)
      [] h = "p_binding2" -> p_binding2(p)
      [] h = "p_binding3" -> p_binding3(p)
(***************************************************************************)
(* The lexer. It hands over tokens [type, value, lineno], lineno counted   *)
(* from 1; a line ends with NEWLINE, deeper indentation gives one INDENT,  *)
(* shallower gives one DEDENT a level, and the input ends with the DEDENTs *)
(* still owed and ENDMARKER. The source is read as the parser asks for     *)
(* tokens: lexer.lines is the part of it read so far.                      *)
(***************************************************************************)
Tok(type, value, lineno) == [type |-> type, value |-> Str(value), lineno |-> lineno]

\* The name written on line n: its line is part of it.
NameAt(base, n) == base \o ToString(n)

\* The operators of the bindings read.
BindOps == [EQUAL |-> "=", LEFTSHIFT |-> "<<"]

\* The lines a declarative source is made of. form is the rule of an attribute
\* declaration: 1 bare, 2 typed, 3 with a default, 4 typed with a default.
ModuleLines == { [kind |-> "docstring", word |-> "", form |-> 0],
                 [kind |-> "declaration", word |-> "", form |-> 0] }

BodyLines ==
    { [kind |-> "docstring", word |-> "", form |-> 0],
      [kind |-> "pass", word |-> "", form |-> 0],
      [kind |-> "instantiation", word |-> "", form |-> 0] }
      \cup { [kind |-> "marker", word |-> w, form |-> 0] : w \in {"id", "foo"} }
      \cup { [kind |-> "binding", word |-> w, form |-> 0] : w \in DOMAIN BindOps }
      \cup { [kind |-> "attribute", word |-> w, form |-> f] :
               w \in {"attr", "event", "bar"}, f \in 1..4 }

\* The tokens of a line, written on line n, before its NEWLINE.
LineTokens(line, n) ==
    CASE line.kind = "docstring" -> << Tok("STRING", NameAt("doc", n), n) >>
      [] line.kind = "pass" -> << Tok("PASS", "pass", n) >>
      [] line.kind = "declaration" ->
            << Tok("NAME", NameAt("Foo", n), n), Tok("LPAR", "(", n),
               Tok("NAME", "Base", n), Tok("RPAR", ")", n), Tok("COLON", ":", n) >>
      [] line.kind = "instantiation" ->
            << Tok("NAME", NameAt("Baz", n), n), Tok("COLON", ":", n) >>
      [] line.kind = "marker" ->
            << Tok("NAME", line.word, n), Tok("COLON", ":", n),
               Tok("NAME", NameAt("x", n), n) >>
      [] line.kind = "binding" ->
            << Tok("NAME", NameAt("b", n), n), Tok(line.word, BindOps[line.word], n),
               Tok("NAME", "v", n) >>
      [] line.kind = "attribute" ->
            << Tok("NAME", line.word, n), Tok("NAME", NameAt("a", n), n) >>
              \o (IF line.form \in {2, 4}
                  THEN << Tok("COLON", ":", n), Tok("NAME", "T", n) >> ELSE <<>>)
              \o (IF line.form \in {3, 4}
                  THEN << Tok("EQUAL", "=", n), Tok("NAME", "v", n) >> ELSE <<>>)

\* count tokens of the given type on line n.
Repeat(type, count, n) == [i \in 1..count |-> Tok(type, "", n)]

\* EnamlLexer(filename), before any input is read.
NewLexer ==
    [filename |-> Str("main.enaml"), lines |-> <<>>, expr |-> <<>>,
     pending |-> <<>>, depth |-> 0, midline |-> FALSE, done |-> FALSE,
     blank |-> FALSE]

\* The text of the tokens of the bound expressions read.
ExprTokens ==
    [ NAME |-> "", OR |-> "or", AND |-> "and", NOT |-> "not", EQEQUAL |-> "==",
      VBAR |-> "|", CIRCUMFLEX |-> "^", AMPER |-> "&", LEFTSHIFT |-> "<<",
      RIGHTSHIFT |-> ">>", PLUS |-> "+", MINUS |-> "-", STAR |-> "*", SLASH |-> "/",
      PERCENT |-> "%", DOUBLESLASH |-> "//", DOUBLESTAR |-> "**", DOT |-> "." ]

\* The token of type ty that follows the tokens of the types read: the names
\* are x1, x2, ... in the order they are written.
ExprTok(ty, read, n) ==
    IF ty = "NAME"
    THEN Tok(ty, NameAt("x", 1 + Cardinality({ i \in DOMAIN read : read[i] = "NAME" })), n)
    ELSE Tok(ty, ExprTokens[ty], n)

\* The line as the lexer has read it, at the indentation depth d.
AtDepth(line, d) ==
    [kind |-> line.kind, word |-> line.word, form |-> line.form, depth |-> d]

\* The INDENT or the DEDENTs that come before a line of depth d, on line n.
Indentation(d, n) ==
    IF d > lexer.depth THEN Repeat("INDENT", 1, n)
    ELSE Repeat("DEDENT", lexer.depth - d, n)

\* The depths the next line can have: one more after a line that opens a
\* body, otherwise the same or any shallower one.
NextDepths ==
    IF /\ lexer.lines # <<>>
       /\ lexer.lines[Len(lexer.lines)].kind \in {"declaration", "instantiation"}
    THEN {lexer.depth + 1}
    ELSE 0..lexer.depth

\* The lexer reads one more line of a declarative source.
ReadLine ==
    /\ result.status = "parsing"
    /\ lookahead = None
    /\ lexer.pending = <<>> /\ ~lexer.done
    /\ Len(lexer.lines) < MaxLines
    /\ \E d \in NextDepths :
         \E line \in (IF d = 0 THEN ModuleLines ELSE BodyLines) :
            /\ (d = 0 /\ line.kind = "docstring") => lexer.lines = <<>>
            /\ LET n == Len(lexer.lines) + 1
               IN  lexer' = [lexer EXCEPT
                        !.lines = Append(@, AtDepth(line, d)),
                        !.depth = d,
                        !.pending = Indentation(d, n) \o LineTokens(line, n)
                                        \o << Tok("NEWLINE", "\n", n) >>]
    /\ UNCHANGED <<target, outcome, lookahead, statestack, symstack, result>>

\* The lexer reads one more token of the bound expression.
ReadExprToken ==
    /\ result.status = "parsing"
    /\ lookahead = None
    /\ lexer.pending = <<>> /\ ~lexer.done
    /\ Len(lexer.expr) < MaxExprTokens
    /\ \E ty \in DOMAIN ExprTokens :
          lexer' = [lexer EXCEPT
                        !.expr = Append(@, ty),
                        !.pending = << ExprTok(ty, lexer.expr, Len(lexer.lines)) >>]
    /\ UNCHANGED <<target, outcome, lookahead, statestack, symstack, result>>

\* The lexer reaches the end of the source, after a last blank line or
\* without one: the blank line is a NEWLINE token of its own.
EndInput ==
    /\ result.status = "parsing"
    /\ lookahead = None
    /\ lexer.pending = <<>> /\ ~lexer.done
    /\ \E blank \in (IF lexer.midline THEN {FALSE} ELSE BOOLEAN) :
         LET n == Len(lexer.lines)
         IN  lexer' = [lexer EXCEPT
                !.done = TRUE,
                !.midline = FALSE,
                !.depth = 0,
                !.blank = blank,
                !.pending = (IF lexer.midline THEN << Tok("NEWLINE", "\n", n) >> ELSE <<>>)
                              \o Repeat("DEDENT", lexer.depth, n + 1)
                              \o (IF blank THEN << Tok("NEWLINE", "\n", n + 1) >> ELSE <<>>)
                              \o << Tok("ENDMARKER", "", n + 1) >>]
    /\ UNCHANGED <<target, outcome, lookahead, statestack, symstack, result>>

(***************************************************************************)
(* _parser.parse(enaml_source, lexer=_lexer): the shift-reduce loop.       *)
(***************************************************************************)
\* lookahead = get_token(); the end of the tokens is the symbol $end.
GetToken ==
    /\ result.status = "parsing"
    /\ lookahead = None
    /\ \/ /\ lexer.pending # <<>>
          /\ lookahead' = Head(lexer.pending)
          /\ lexer' = [lexer EXCEPT !.pending = Tail(@)]
       \/ /\ lexer.pending = <<>> /\ lexer.done
          /\ lookahead' = [type |-> "$end", value |-> None, lineno |-> 0]
          /\ UNCHANGED lexer
    /\ UNCHANGED <<target, outcome, statestack, symstack, result>>

Shift ==
    /\ result.status = "parsing"
    /\ lookahead # None
    /\ Goto(statestack[Len(statestack)], lookahead.type) # {}
    /\ statestack' = Append(statestack, Goto(statestack[Len(statestack)], lookahead.type))
    /\ symstack' = Append(symstack, lookahead)
    /\ lookahead' = None
    /\ UNCHANGED <<target, outcome, lexer, result>>

\* The production object of a reduction by rule r.
Production(r) ==
    LET n == Len(Grammar[r].r)
    IN  [v |-> [i \in 1..n |-> symstack[Len(symstack) - n + i].value],
         lineno |-> [i \in 1..n |-> symstack[Len(symstack) - n + i].lineno],
         lexer |-> lexer]

\* A reduction: the handler's p[0] replaces the symbols of the rule, or the
\* exception the handler raises leaves parse().
Reduce ==
    /\ result.status = "parsing"
    /\ lookahead # None
    /\ Goto(statestack[Len(statestack)], lookahead.type) = {}
    /\ \E r \in Reductions(statestack[Len(statestack)], lookahead.type) :
          \E s \in { Reduced(statestack, r) } :
             /\ LET value == Handle(Grammar[r].h, Production(r))
                IN  IF IsRaise(value) THEN
                        /\ result' = [status |-> "raised", error |-> value]
                        /\ UNCHANGED <<statestack, symstack>>
                    ELSE
                        /\ statestack' = s
                        /\ symstack' =
                              Append(SubSeq(symstack, 1,
                                            Len(symstack) - Len(Grammar[r].r)),
                                     [type |-> Grammar[r].l, value |-> value,
                                      lineno |-> 0])
                        /\ UNCHANGED result
    /\ UNCHANGED <<target, outcome, lexer, lookahead>>

\* The start symbol is on the stack and the tokens have ended: parse()
\* returns its value.
Accept ==
    /\ result.status = "parsing"
    /\ lookahead # None
    /\ lookahead.type = "$end"
    /\ <<1, 1>> \in statestack[Len(statestack)]
    /\ result' = [status |-> "returned", value |-> symstack[Len(symstack)].value]
    /\ UNCHANGED <<target, outcome, lexer, lookahead, statestack, symstack>>

\* p_error(t): yacc hands it None for t at the end of the tokens.
p_error(t) ==
    IF t.type = "$end" THEN
        Raise("AttributeError", "'NoneType' object has no attribute 'lexer'")
    ELSE raise_syntax_error("invalid syntax.", lexer.filename, IntVal(t.lineno))

\* No action for the lookahead: yacc calls p_error, which raises.
ParseError ==
    /\ result.status = "parsing"
    /\ lookahead # None
    /\ Goto(statestack[Len(statestack)], lookahead.type) = {}
    /\ Reductions(statestack[Len(statestack)], lookahead.type) = {}
    /\ ~(lookahead.type = "$end" /\ <<1, 1>> \in statestack[Len(statestack)])
    /\ result' = [status |-> "raised", error |-> p_error(lookahead)]
    /\ UNCHANGED <<target, outcome, lexer, lookahead, statestack, symstack>>

(***************************************************************************)
(* set_store_ctxt alone: a tree is drawn and handed to it.                 *)
(***************************************************************************)
InitStore ==
    /\ target \in Targets
    /\ outcome = [status |-> "ready"]
    /\ lexer = NewLexer
    /\ lookahead = None
    /\ statestack = <<>>
    /\ symstack = <<>>
    /\ result = [status |-> "idle"]

CallSetStore ==
    /\ outcome.status = "ready"
    /\ LET r == set_store_ctxt(target)
       IN  outcome' = [status |-> "done", raised |-> r.raised, node |-> r.node]
    /\ UNCHANGED <<target, lexer, lookahead, statestack, symstack, result>>

NextStore == CallSetStore

SpecStore == InitStore /\ [][NextStore]_vars

(***************************************************************************)
(* parse() on a declarative source: a module docstring and declarations,   *)
(* whose bodies hold a docstring, identifier markers, attribute            *)
(* declarations, bindings, pass lines and nested instantiations.           *)
(***************************************************************************)
InitDecl ==
    /\ target = None
    /\ outcome = [status |-> "idle"]
    /\ lexer = NewLexer
    /\ lookahead = None
    /\ statestack = << {<<1, 0>>} >>
    /\ symstack = <<>>
    /\ result = [status |-> "parsing"]

NextDecl == ReadLine \/ EndInput \/ GetToken \/ Shift \/ Reduce \/ Accept \/ ParseError

SpecDecl == InitDecl /\ [][NextDecl]_vars

(***************************************************************************)
(* parse() on a declaration whose body is one binding: the tokens of the   *)
(* bound expression are drawn one by one.                                  *)
(***************************************************************************)
InitExpr ==
    /\ target = None
    /\ outcome = [status |-> "idle"]
    /\ lexer = [NewLexer EXCEPT
                  !.lines = << AtDepth([kind |-> "declaration", word |-> "", form |-> 0], 0),
                               AtDepth([kind |-> "binding", word |-> "EQUAL", form |-> 0], 1) >>,
                  !.depth = 1,
                  !.midline = TRUE,
                  !.pending = LineTokens([kind |-> "declaration"], 1)
                                \o << Tok("NEWLINE", "\n", 1), Tok("INDENT", "", 2),
                                      Tok("NAME", NameAt("b", 2), 2), Tok("EQUAL", "=", 2) >>]
    /\ lookahead = None
    /\ statestack = << {<<1, 0>>} >>
    /\ symstack = <<>>
    /\ result = [status |-> "parsing"]

NextExpr ==
    ReadExprToken \/ EndInput \/ GetToken \/ Shift \/ Reduce \/ Accept \/ ParseError

SpecExpr == InitExpr /\ [][NextExpr]_vars

(***************************************************************************)
(* C1, C2: which assignment targets set_store_ctxt accepts, and what it    *)
(* reports for the others.                                                 *)
(***************************************************************************)
RECURSIVE ValidTarget(_)
\* The shapes C1 lists: a name, an attribute access, a subscript, a non-empty
\* tuple of valid targets, a list of valid targets.
ValidTarget(t) ==
    \/ t.k \in {"Name", "Attribute", "Subscript"}
    \/ /\ t.k = "Tuple"
       /\ Len(t.elts.v) > 0
       /\ \A i \in 1..Len(t.elts.v) : ValidTarget(t.elts.v[i])
    \/ /\ t.k = "List"
       /\ \A i \in 1..Len(t.elts.v) : ValidTarget(t.elts.v[i])

\* C1: set_store_ctxt returns without raising if and only if the tree is a
\* name, an attribute access, a subscript, a non-empty tuple whose elements
\* are all accepted, or a list whose elements are all accepted; it raises
\* for every other tree.
C1_StoreAcceptsExactlyTargets ==
    outcome.status = "done" => ((outcome.raised = None) <=> ValidTarget(target))

\* A non-empty tuple holding a list has been accepted.
C1_Witness ==
    /\ outcome.status = "done"
    /\ outcome.raised = None
    /\ target.k = "Tuple"
    /\ \E i \in 1..Len(target.elts.v) :
          /\ target.elts.v[i].k = "List"
          /\ Len(target.elts.v[i].elts.v) = MaxElts

\* The label C2 gives each offending node class.
C2_Label(kd) ==
    CASE kd = "Call" -> "function call"
      [] kd = "Lambda" -> "lambda"
      [] kd \in {"Dict", "Set", "Num", "Str"} -> "literal"
      [] kd \in {"UnaryOp", "BinOp", "BoolOp"} -> "operator"
      [] kd = "Compare" -> "comparison"
      [] kd = "IfExp" -> "conditional expression"
      [] kd = "GeneratorExp" -> "generator expression"
      [] kd = "ListComp" -> "list comprehension"
      [] kd = "SetComp" -> "set comprehension"
      [] kd = "DictComp" -> "dict comprehension"
      [] OTHER -> "?"

RECURSIVE C2_FirstOffending(_)
RECURSIVE C2_FirstOffendingFrom(_, _)
\* The label of the first offending node of t in depth-first, left-to-right
\* order, "" when t has none.
C2_FirstOffending(t) ==
    IF t.k \in {"Name", "Attribute", "Subscript"} THEN ""
    ELSE IF t.k = "Tuple" /\ Len(t.elts.v) = 0 THEN "()"
    ELSE IF t.k \in {"Tuple", "List"} THEN C2_FirstOffendingFrom(t.elts.v, 1)
    ELSE C2_Label(t.k)

C2_FirstOffendingFrom(es, i) ==
    IF i > Len(es) THEN ""
    ELSE IF C2_FirstOffending(es[i]) # "" THEN C2_FirstOffending(es[i])
    ELSE C2_FirstOffendingFrom(es, i + 1)

\* C2: when set_store_ctxt rejects a target it raises a syntax error whose
\* message is "can't assign to X", X being the label of the first offending
\* node in depth-first, left-to-right order.
C2_RejectionNamesFirstOffender ==
    (outcome.status = "done" /\ outcome.raised # None) =>
        /\ outcome.raised.exc = "EnamlSyntaxError"
        /\ outcome.raised.msg = "can't assign to " \o C2_FirstOffending(target)

\* A display whose first element is accepted and whose second and third
\* offenders differ has been rejected.
C2_Witness ==
    /\ outcome.status = "done"
    /\ outcome.raised # None
    /\ target.k = "List"
    /\ Len(target.elts.v) = 2
    /\ target.elts.v[1].k = "Tuple"
    /\ Len(target.elts.v[1].elts.v) = 2
    /\ target.elts.v[1].elts.v[1].k = "Name"
    /\ target.elts.v[1].elts.v[2].k = "Call"
    /\ target.elts.v[2].k = "Num"
    /\ outcome.raised.msg = "can't assign to function call"


(***************************************************************************)
(* What the claims below say of a finished parse.                          *)
(***************************************************************************)
\* The values a value holds directly: the items of a list or a tuple, the
\* attributes of a node.
Children(v) ==
    IF v.k \in {"list", "tuple"} THEN { v.v[i] : i \in DOMAIN v.v }
    ELSE IF v.k \in PlainKinds THEN {}
    ELSE { v[f] : f \in DOMAIN v \ {"k"} }

RECURSIVE SubValues(_)
\* A value and all the values inside it.
SubValues(v) == {v} \cup UNION { SubValues(c) : c \in Children(v) }

\* The nodes of the tree parse() has returned.
ReturnedNodes ==
    IF result.status = "returned" THEN SubValues(result.value) ELSE {}

\* C3: every failure raised while parsing is a structured syntax error that
\* exposes the file name, the line number and a message.
C3_FailuresAreStructuredSyntaxErrors ==
    result.status = "raised" =>
        /\ result.error.exc = "SyntaxError"
        /\ {"filename", "lineno", "msg"} \subseteq DOMAIN result.error
        /\ result.error.filename = lexer.filename
        /\ result.error.lineno.k = "int"
        /\ result.error.lineno.n \in 1..(Len(lexer.lines) + 1)

\* The first line of a body is a marker whose left name is not 'id', and the
\* parse has failed on it.
C3_Witness ==
    /\ result.status = "raised"
    /\ Len(lexer.lines) >= 2
    /\ lexer.lines[2] = AtDepth([kind |-> "marker", word |-> "foo", form |-> 0], 1)
    /\ result.error.exc = "EnamlSyntaxError"

(***************************************************************************)
(* The embedded expression trees.                                          *)
(***************************************************************************)
\* The classes of the expression nodes the modelled rules build.
ExprKinds == {"Name", "Attribute", "BinOp", "BoolOp", "UnaryOp", "Compare"}

IsExprList(v) == v.k = "list" /\ \A i \in DOMAIN v.v : v.v[i].k \in ExprKinds

\* Every operand field of an expression node holds an expression node, and
\* every list field a list of them.
CompleteNode(n) ==
    CASE n.k = "BinOp" -> n.left.k \in ExprKinds /\ n.right.k \in ExprKinds
      [] n.k = "UnaryOp" -> n.operand.k \in ExprKinds
      [] n.k = "BoolOp" -> IsExprList(n.values)
      [] n.k = "Compare" ->
            n.left.k \in ExprKinds /\ IsExprList(n.comparators) /\ n.ops.k = "list"
      [] n.k = "Attribute" -> n.value.k \in ExprKinds /\ n.attr.k = "str"
      [] n.k = "Name" -> n.id.k = "str"
      [] n.k = "Expression" -> n.body.k \in ExprKinds
      [] OTHER -> TRUE

\* C4: every embedded expression sub-tree returned by a successful parse is
\* syntactically complete: each operand field holds an expression node built
\* from a source sub-expression, never raw token text, and every field that
\* must be a list is a list.
C4_EmbeddedTreesAreComplete ==
    \A n \in ReturnedNodes : CompleteNode(n)

\* x1 ^ x2 has been parsed to a tree.
C4_Witness ==
    /\ result.status = "returned"
    /\ lexer.expr = <<"NAME", "CIRCUMFLEX", "NAME">>

RECURSIVE Strip(_)
\* A tree without the positions fix_missing_locations has put on it.
Strip(v) ==
    IF v.k = "list" THEN List([i \in DOMAIN v.v |-> Strip(v.v[i])])
    ELSE IF v.k \in PlainKinds THEN v
    ELSE [f \in DOMAIN v \ {"lineno", "col_offset"} |->
            IF f = "k" THEN v.k ELSE Strip(v[f])]

\* The tree of the bound expression of the source of SpecExpr.
BoundTree == Strip(result.value.body.v[1].body.v[1].binding.expr.py_ast.body)

\* The i-th name written in the expression.
X(i) == Name(Str(NameAt("x", i)))

\* The layer of the grammar each token belongs to, the loosest first.
Layer ==
    [ OR |-> 1, AND |-> 2, NOT |-> 3, EQEQUAL |-> 4, VBAR |-> 5, CIRCUMFLEX |-> 6,
      AMPER |-> 7, LEFTSHIFT |-> 8, RIGHTSHIFT |-> 8, PLUS |-> 9, MINUS |-> 9,
      STAR |-> 10, SLASH |-> 10, PERCENT |-> 10, DOUBLESLASH |-> 10,
      DOUBLESTAR |-> 12, DOT |-> 13 ]

\* A unary minus or plus lies between the multiplicative layer and power.
UnaryLayer(u) == IF u = "NOT" THEN 3 ELSE 11

\* The node a binary operator token stands for, over two operands.
Tree(tok, l, r) ==
    CASE tok = "OR" -> [k |-> "BoolOp", op |-> [k |-> "Or"], values |-> List(<<l, r>>)]
      [] tok = "AND" -> [k |-> "BoolOp", op |-> [k |-> "And"], values |-> List(<<l, r>>)]
      [] tok = "EQEQUAL" ->
            [k |-> "Compare", left |-> l, ops |-> List(<<[k |-> "Eq"]>>),
             comparators |-> List(<<r>>)]
      [] tok = "DOT" -> [k |-> "Attribute", attr |-> r.id, ctx |-> Load, value |-> l]
      [] OTHER ->
            [k |-> "BinOp", left |-> l, right |-> r,
             op |-> [k |-> CASE tok = "VBAR" -> "BitOr"
                             [] tok = "CIRCUMFLEX" -> "BitXor"
                             [] tok = "AMPER" -> "BitAnd"
                             [] tok = "LEFTSHIFT" -> "LShift"
                             [] tok = "RIGHTSHIFT" -> "RShift"
                             [] tok = "PLUS" -> "Add"
                             [] tok = "MINUS" -> "Sub"
                             [] tok = "STAR" -> "Mult"
                             [] tok = "SLASH" -> "Div"
                             [] tok = "PERCENT" -> "Mod"
                             [] tok = "DOUBLESLASH" -> "FloorDiv"
                             [] tok = "DOUBLESTAR" -> "Pow"]]

\* The node a unary operator token stands for.
UnaryTree(tok, operand) ==
    [k |-> "UnaryOp", operand |-> operand,
     op |-> [k |-> CASE tok = "NOT" -> "Not" [] tok = "MINUS" -> "USub"]]

\* The parse of the expression read has ended, one way or the other.
Finished == lexer.done /\ result.status \in {"returned", "raised"}

\* The expression read is x1 o1 x2 o2 x3.
TwoOperators ==
    /\ Len(lexer.expr) = 5
    /\ \A i \in {1, 3, 5} : lexer.expr[i] = "NAME"
    /\ \A i \in {2, 4} : lexer.expr[i] \in DOMAIN Layer \ {"NOT"}

\* The binary operator tokens.
BinaryTokens == DOMAIN Layer \ {"NOT"}

\* The expression read so far is a chain: names with binary operators
\* between them.
Chain ==
    \A i \in DOMAIN lexer.expr :
        IF i % 2 = 1 THEN lexer.expr[i] = "NAME" ELSE lexer.expr[i] \in BinaryTokens

\* The operators of the chain read so far.
ChainOps == { lexer.expr[i] : i \in { j \in DOMAIN lexer.expr : j % 2 = 0 } }

\* The operators C5 speaks of: |, ^, &, the shifts, + and -, *, and **.
C5_Operators ==
    {"VBAR", "CIRCUMFLEX", "AMPER", "LEFTSHIFT", "PLUS", "MINUS", "STAR", "DOUBLESTAR"}

\* C5: a chain of operators of one layer, x1 o x2 o' x3, parses, and parses
\* to binary operations nested to the left, (x1 o x2) o' x3; a chain of the
\* exponent operator nests to the right, x1 ** (x2 ** x3).
C5_ChainsNestByLayer ==
    (/\ Chain
     /\ ChainOps \subseteq C5_Operators
     /\ \A o1, o2 \in ChainOps : Layer[o1] = Layer[o2]) =>
        /\ result.status = "raised" => result.error.exc = "SyntaxError"
        /\ (result.status = "returned" /\ Len(lexer.expr) = 5) =>
              BoundTree =
                 IF lexer.expr[2] = "DOUBLESTAR"
                 THEN Tree(lexer.expr[2], X(1), Tree(lexer.expr[4], X(2), X(3)))
                 ELSE Tree(lexer.expr[4], Tree(lexer.expr[2], X(1), X(2)), X(3))

\* x1 - x2 + x3 has been parsed to a tree.
C5_Witness ==
    /\ result.status = "returned"
    /\ lexer.expr = <<"NAME", "MINUS", "NAME", "PLUS", "NAME">>

\* C6: of two operators of different layers the one of the tighter layer ends
\* up as a sub-tree of the other, whatever their order in the source:
\* x1 o x2 o' x3 groups around the looser of o and o', a prefix operator takes
\* in a following binary operation of a tighter layer and no other, and a
\* unary minus is accepted as the right operand of a binary operator.
C6_TighterLayerIsSubtree ==
    /\ (Chain /\ result.status = "raised") => result.error.exc = "SyntaxError"
    /\ (/\ result.status = "returned"
        /\ TwoOperators
        /\ Layer[lexer.expr[2]] # Layer[lexer.expr[4]]) =>
           BoundTree =
              IF Layer[lexer.expr[2]] > Layer[lexer.expr[4]]
              THEN Tree(lexer.expr[4], Tree(lexer.expr[2], X(1), X(2)), X(3))
              ELSE Tree(lexer.expr[2], X(1), Tree(lexer.expr[4], X(2), X(3)))
    /\ (/\ result.status = "returned"
        /\ Len(lexer.expr) = 4
        /\ lexer.expr[1] \in {"NOT", "MINUS"}
        /\ lexer.expr[2] = "NAME"
        /\ lexer.expr[3] \in BinaryTokens
        /\ lexer.expr[4] = "NAME") =>
           BoundTree =
              IF UnaryLayer(lexer.expr[1]) > Layer[lexer.expr[3]]
              THEN Tree(lexer.expr[3], UnaryTree(lexer.expr[1], X(1)), X(2))
              ELSE UnaryTree(lexer.expr[1], Tree(lexer.expr[3], X(1), X(2)))
    /\ (/\ Finished
        /\ Len(lexer.expr) = 4
        /\ lexer.expr[1] = "NAME"
        /\ lexer.expr[2] \in BinaryTokens \ {"DOT"}
        /\ lexer.expr[3] = "MINUS"
        /\ lexer.expr[4] = "NAME") =>
           /\ result.status = "returned"
           /\ BoundTree = Tree(lexer.expr[2], X(1), UnaryTree("MINUS", X(2)))

\* x1 + x2 * x3 has been parsed to a tree.
C6_Witness ==
    /\ result.status = "returned"
    /\ lexer.expr = <<"NAME", "PLUS", "NAME", "STAR", "NAME">>

(***************************************************************************)
(* The declarative tree.                                                   *)
(***************************************************************************)
\* The rules of attribute_declaration the parser is about to reduce by: the
\* lookahead is read, cannot be shifted, and is one the table reduces on.
AttributeRuleDue ==
    IF /\ result.status = "parsing"
       /\ lookahead # None
       /\ Goto(statestack[Len(statestack)], lookahead.type) = {}
    THEN { r \in Reductions(statestack[Len(statestack)], lookahead.type) :
             Grammar[r].l = "attribute_declaration" }
    ELSE {}

\* The nodes on the parser's stack.
StackNodes == UNION { SubValues(symstack[i].value) : i \in DOMAIN symstack }

\* C7: an attribute declaration is accepted only when its keyword is 'attr'
\* or 'event'. Reducing one, 'attr' yields an AttributeDeclaration with
\* is_event false and 'event' one with is_event true; any other keyword
\* raises a syntax error that names the keyword and carries the file name
\* and the line of the declaration, and no AttributeDeclaration is made: none
\* on the stack stands for a line with another keyword.
C7_AttributeKeywordIsChecked ==
    /\ [](\A n \in StackNodes :
            n.k = "AttributeDeclaration" =>
               /\ lexer.lines[n.lineno.n].kind = "attribute"
               /\ lexer.lines[n.lineno.n].word \in {"attr", "event"}
               /\ n.is_event = Bool(lexer.lines[n.lineno.n].word = "event"))
    /\ [][\A r \in AttributeRuleDue :
            LET kw == symstack[Len(symstack) - Len(Grammar[r].r) + 1]
            IN  IF kw.value \in {Str("attr"), Str("event")} THEN
                    /\ result' = result
                    /\ symstack'[Len(symstack')].value.k = "AttributeDeclaration"
                    /\ symstack'[Len(symstack')].value.is_event
                          = Bool(kw.value = Str("event"))
                ELSE
                    /\ result'.status = "raised"
                    /\ result'.error =
                          [k |-> "raise", exc |-> "SyntaxError",
                           msg |-> "Expected keyword 'attr' or 'event', got '"
                                      \o kw.value.s \o "' instead.",
                           filename |-> lexer.filename,
                           lineno |-> IntVal(kw.lineno)]
                    /\ symstack' = symstack]_vars

\* An event has been declared on line 2, and the declaration of line 3, whose
\* keyword is 'bar', has been refused.
C7_Witness ==
    /\ result.status = "raised"
    /\ result.error.msg = "Expected keyword 'attr' or 'event', got 'bar' instead."
    /\ result.error.lineno = IntVal(3)
    /\ \E n \in StackNodes :
          n.k = "AttributeDeclaration" /\ n.is_event = Bool(TRUE) /\ n.lineno = IntVal(2)

\* Line i is the first line of a body: it follows the line that opens the
\* body, or the docstring that follows the opening line of a declaration.
LeadsBody(i) ==
    /\ i >= 2
    /\ \/ lexer.lines[i - 1].kind \in {"declaration", "instantiation"}
       \/ /\ i >= 3
          /\ lexer.lines[i - 1].kind = "docstring"
          /\ lexer.lines[i - 2].kind = "declaration"

\* The marker line that leads the body opened on line h, 0 when none does.
MarkerOf(h) ==
    IF h + 1 <= Len(lexer.lines) /\ lexer.lines[h + 1].kind = "marker" THEN h + 1
    ELSE IF /\ h + 2 <= Len(lexer.lines)
            /\ lexer.lines[h].kind = "declaration"
            /\ lexer.lines[h + 1].kind = "docstring"
            /\ lexer.lines[h + 2].kind = "marker"
    THEN h + 2
    ELSE 0

\* C8: in every Declaration and Instantiation returned by parse the
\* identifier is absent, or is the name of the marker line that leads the
\* body (after the docstring of a declaration); a source returned by parse
\* has no marker line elsewhere and none whose left name is not 'id'.
C8_IdentifierIsTheLeadingMarker ==
    result.status = "returned" =>
        /\ \A i \in DOMAIN lexer.lines :
              lexer.lines[i].kind = "marker" =>
                 lexer.lines[i].word = "id" /\ LeadsBody(i)
        /\ \A n \in ReturnedNodes :
              n.k \in {"Declaration", "Instantiation"} =>
                 n.identifier = IF MarkerOf(n.lineno.n) = 0 THEN None
                                ELSE Str(NameAt("x", MarkerOf(n.lineno.n)))

\* A declaration with a docstring, a marker and an item has been returned.
C8_Witness ==
    /\ result.status = "returned"
    /\ \E n \in ReturnedNodes :
          /\ n.k = "Declaration"
          /\ n.doc = Str("doc2")
          /\ n.identifier = Str("x3")
          /\ Len(n.body.v) = 1

\* C9: in every tree returned by parse each item of an Instantiation body is
\* an Instantiation or an AttributeBinding, each item of a Declaration body
\* an AttributeDeclaration, an AttributeBinding or an Instantiation, and no
\* body holds the placeholder of a pass line.
C9_BodyItemsAreNodes ==
    \A n \in ReturnedNodes :
        /\ n.k = "Instantiation" =>
              /\ n.body.k = "list"
              /\ \A i \in DOMAIN n.body.v :
                    n.body.v[i].k \in {"Instantiation", "AttributeBinding"}
        /\ n.k = "Declaration" =>
              /\ n.body.k = "list"
              /\ \A i \in DOMAIN n.body.v :
                    n.body.v[i].k \in {"AttributeDeclaration", "AttributeBinding",
                                       "Instantiation"}

\* A declaration whose body is a pass line, an attribute declaration and an
\* instantiation has been returned.
C9_Witness ==
    /\ result.status = "returned"
    /\ Len(lexer.lines) = 4
    /\ lexer.lines[2].kind = "pass"
    /\ lexer.lines[3].kind = "attribute"
    /\ lexer.lines[4].kind = "pass"
    /\ \E n \in ReturnedNodes : n.k = "Declaration" /\ Len(n.body.v) = 1

\* The node stands for the construct that starts on line l.
StartsOn(n, l) ==
    CASE n.k = "Module" -> l = 1
      [] n.k = "Declaration" ->
            /\ l \in DOMAIN lexer.lines
            /\ lexer.lines[l].kind = "declaration"
            /\ n.name = Str(NameAt("Foo", l))
            /\ n.base.lineno = IntVal(l)
      [] n.k = "Instantiation" ->
            /\ l \in DOMAIN lexer.lines
            /\ lexer.lines[l].kind = "instantiation"
            /\ n.name = Str(NameAt("Baz", l))
      [] n.k = "AttributeDeclaration" ->
            /\ l \in DOMAIN lexer.lines
            /\ lexer.lines[l].kind = "attribute"
            /\ n.name = Str(NameAt("a", l))
            /\ n.type # None => n.type.lineno = IntVal(l)
      [] n.k = "AttributeBinding" ->
            /\ l \in DOMAIN lexer.lines
            /\ \/ lexer.lines[l].kind = "attribute" /\ n.name = Str(NameAt("a", l))
               \/ lexer.lines[l].kind = "binding" /\ n.name = Str(NameAt("b", l))
            /\ n.binding.lineno = IntVal(l)
      [] n.k = "BoundExpression" ->
            /\ l \in DOMAIN lexer.lines
            /\ lexer.lines[l].kind \in {"attribute", "binding"}
            /\ n.expr.lineno = IntVal(l)
      [] n.k = "Python" ->
            /\ l \in DOMAIN lexer.lines
            /\ lexer.lines[l].kind \in {"declaration", "attribute", "binding"}

\* C10: every declarative node returned by parse carries a line number, the
\* 1-based line of the token that starts its construct.
C10_DeclarativeNodesCarryTheirLine ==
    \A n \in ReturnedNodes :
        n.k \in {"Module", "Declaration", "Instantiation", "AttributeDeclaration",
                 "AttributeBinding", "BoundExpression", "Python"} =>
           /\ "lineno" \in DOMAIN n
           /\ n.lineno.k = "int"
           /\ n.lineno.n >= 1
           /\ StartsOn(n, n.lineno.n)

\* A module holding a declaration with a nested instantiation has been
\* returned.
C10_Witness ==
    /\ result.status = "returned"
    /\ Len(lexer.lines) = 4
    /\ lexer.lines[3].kind = "instantiation"
    /\ lexer.lines[4].kind = "binding"

(***************************************************************************)
(* translate_operator alone: binding operators are drawn and translated,   *)
(* one call after the other; outcome.calls is the record of the calls.     *)
(***************************************************************************)
\* The texts of the tokens EQUAL, COLONEQUAL, LEFTSHIFT, RIGHTSHIFT and
\* DOUBLECOLON, the operators p_binding1..3 hand to translate_operator.
BindingOperators == {"=", ":=", "<<", ">>", "::"}

InitTranslate ==
    /\ target = None
    /\ outcome = [status |-> "translating", calls |-> <<>>]
    /\ lexer = NewLexer
    /\ lookahead = None
    /\ statestack = <<>>
    /\ symstack = <<>>
    /\ result = [status |-> "idle"]

CallTranslate ==
    /\ outcome.status = "translating"
    /\ Len(outcome.calls) < MaxCalls
    /\ \E op \in BindingOperators :
          /\ target' = Str(op)
          /\ outcome' = [outcome EXCEPT
                           !.calls = Append(@, [op |-> Str(op),
                                                id |-> translate_operator(Str(op))])]
    /\ UNCHANGED <<lexer, lookahead, statestack, symstack, result>>

NextTranslate == CallTranslate

SpecTranslate == InitTranslate /\ [][NextTranslate]_vars

\* C11: translate_operator maps =, :=, <<, >> and :: to __operator_Equal__,
\* __operator_ColonEqual__, __operator_LessLess__,
\* __operator_GreaterGreater__ and __operator_ColonColon__; two calls yield
\* the same identifier exactly when they translate the same operator.
C11_OperatorsTranslateToDistinctNames ==
    outcome.status = "translating" =>
        /\ \A i \in DOMAIN outcome.calls :
              outcome.calls[i].id =
                 CASE outcome.calls[i].op = Str("=") -> Str("__operator_Equal__")
                   [] outcome.calls[i].op = Str(":=") -> Str("__operator_ColonEqual__")
                   [] outcome.calls[i].op = Str("<<") -> Str("__operator_LessLess__")
                   [] outcome.calls[i].op = Str(">>") -> Str("__operator_GreaterGreater__")
                   [] outcome.calls[i].op = Str("::") -> Str("__operator_ColonColon__")
        /\ \A i, j \in DOMAIN outcome.calls :
              (outcome.calls[i].id = outcome.calls[j].id)
                 <=> (outcome.calls[i].op = outcome.calls[j].op)

\* := has been translated, then ::, then := again.
C11_Witness ==
    /\ outcome.status = "translating"
    /\ Len(outcome.calls) = 3
    /\ outcome.calls[1].op = Str(":=")
    /\ outcome.calls[2].op = Str("::")
    /\ outcome.calls[3].id = Str("__operator_ColonEqual__")

\* The source is empty, or a blank line, or one module docstring line.
EmptySource ==
    /\ lexer.done
    /\ \/ lexer.lines = <<>>
       \/ /\ Len(lexer.lines) = 1
          /\ lexer.lines[1].kind = "docstring"
          /\ ~lexer.blank

\* C12: a source whose tokens are the end marker alone, a newline and the
\* end marker, or one module docstring line and the end marker, never makes
\* parse fail, and what parse returns for it is a Module with no item, whose
\* docstring is the string of the docstring line, or empty without one.
C12_EmptySourceIsAnEmptyModule ==
    EmptySource =>
        /\ result.status # "raised"
        /\ result.status = "returned" =>
              /\ result.value.k = "Module"
              /\ result.value.body = List(<<>>)
              /\ result.value.doc = IF lexer.lines = <<>> THEN Str("")
                                    ELSE Str(NameAt("doc", 1))

\* The source made of a module docstring has been parsed.
C12_Witness ==
    /\ EmptySource
    /\ lexer.lines # <<>>
    /\ result.status = "returned"
    /\ result.value.doc = Str("doc1")

(***************************************************************************)
(* parse() on a declaration with a docstring, an attribute declaration and *)
(* a nested instantiation that has an identifier and a binding: each line  *)
(* of the source is drawn among the variants of its position.              *)
(***************************************************************************)
\* The lines that can be written at each position of the source.
ScenarioLines ==
    << { AtDepth([kind |-> "declaration", word |-> "", form |-> 0], 0) },
       { AtDepth([kind |-> k, word |-> "", form |-> 0], 1) : k \in {"docstring", "pass"} },
       { AtDepth([kind |-> "attribute", word |-> w, form |-> f], 1) :
           w \in {"attr", "event"}, f \in {1, 3} },
       { AtDepth([kind |-> "instantiation", word |-> "", form |-> 0], 1) },
       { AtDepth([kind |-> "marker", word |-> "id", form |-> 0], 2),
         AtDepth([kind |-> "pass", word |-> "", form |-> 0], 2) },
       { AtDepth([kind |-> "binding", word |-> w, form |-> 0], 2) : w \in DOMAIN BindOps } >>

\* The lexer reads the next line of the source.
ReadScenarioLine ==
    /\ result.status = "parsing"
    /\ lookahead = None
    /\ lexer.pending = <<>> /\ ~lexer.done
    /\ Len(lexer.lines) < Len(ScenarioLines)
    /\ LET n == Len(lexer.lines) + 1
       IN  \E line \in ScenarioLines[n] :
              lexer' = [lexer EXCEPT
                          !.lines = Append(@, line),
                          !.depth = line.depth,
                          !.pending = Indentation(line.depth, n) \o LineTokens(line, n)
                                          \o << Tok("NEWLINE", "\n", n) >>]
    /\ UNCHANGED <<target, outcome, lookahead, statestack, symstack, result>>

InitScenario == InitDecl

NextScenario ==
    ReadScenarioLine \/ EndInput \/ GetToken \/ Shift \/ Reduce \/ Accept \/ ParseError

SpecScenario == InitScenario /\ [][NextScenario]_vars

\* The source read is a declaration whose body is a docstring, an attr
\* declaration with a default and an instantiation whose body is an
\* identifier line and a << binding.
ScenarioSource ==
    /\ lexer.done
    /\ Len(lexer.lines) = 6
    /\ lexer.lines[2].kind = "docstring"
    /\ lexer.lines[3].word = "attr" /\ lexer.lines[3].form = 3
    /\ lexer.lines[5].kind = "marker"
    /\ lexer.lines[6].word = "LEFTSHIFT"

\* C13: that source never makes parse fail, and parse returns for it a
\* Module with exactly one item, a Declaration that has its docstring and
\* exactly two body items in source order: the AttributeDeclaration, not an
\* event, whose default is bound by __operator_Equal__, and the
\* Instantiation, which has its identifier and exactly one AttributeBinding,
\* bound by __operator_LessLess__.
C13_ScenarioDeclarationTree ==
    ScenarioSource =>
        /\ result.status # "raised"
        /\ result.status = "returned" =>
              /\ result.value.k = "Module"
              /\ Len(result.value.body.v) = 1
              /\ LET decl == result.value.body.v[1]
                 IN  /\ decl.k = "Declaration"
                     /\ decl.name = Str("Foo1")
                     /\ decl.doc = Str("doc2")
                     /\ Len(decl.body.v) = 2
                     /\ LET a == decl.body.v[1]
                            inst == decl.body.v[2]
                        IN  /\ a.k = "AttributeDeclaration"
                            /\ a.name = Str("a3")
                            /\ a.is_event = Bool(FALSE)
                            /\ a.default.k = "AttributeBinding"
                            /\ a.default.binding.op = Str("__operator_Equal__")
                            /\ inst.k = "Instantiation"
                            /\ inst.name = Str("Baz4")
                            /\ inst.identifier = Str("x5")
                            /\ Len(inst.body.v) = 1
                            /\ inst.body.v[1].k = "AttributeBinding"
                            /\ inst.body.v[1].name = Str("b6")
                            /\ inst.body.v[1].binding.op = Str("__operator_LessLess__")

\* The tree of that source has been returned.
C13_Witness ==
    /\ ScenarioSource
    /\ result.status = "returned"
    /\ result.value.body.v[1].body.v[2].identifier = Str("x5")

(***************************************************************************)
(* parse() on a source with raw blocks: a block is a start marker line,    *)
(* the lines of its text and an end marker line, at the module level.      *)
(***************************************************************************)
\* The texts of a raw block: one to MaxBlockLines lines, each a statement
\* or a line that is no statement.
BlockTexts == UNION { [1..n -> {"ok", "bad"}] : n \in 1..MaxBlockLines }

\* The lexer reads a raw block: the start marker is on line n, the text from
\* line n + 1 on, and the end marker on the line after the text.
ReadRawBlock ==
    /\ result.status = "parsing"
    /\ lookahead = None
    /\ lexer.pending = <<>> /\ ~lexer.done
    /\ 0 \in NextDepths
    /\ Cardinality({ i \in DOMAIN lexer.lines : lexer.lines[i].kind = "raw" }) < MaxBlocks
    /\ \E text \in BlockTexts :
         LET n == Len(lexer.lines) + 1
             end == n + Len(text) + 1
         IN  lexer' = [lexer EXCEPT
                !.lines = @ \o << AtDepth([kind |-> "raw", word |-> "", form |-> 0], 0) >>
                            \o [i \in 1..Len(text) |->
                                   AtDepth([kind |-> "python", word |-> text[i],
                                            form |-> 0], 0)]
                            \o << AtDepth([kind |-> "end", word |-> "", form |-> 0], 0) >>,
                !.depth = 0,
                !.pending = Indentation(0, n)
                              \o << Tok("PY_BLOCK_START", ":: python ::", n),
                                    Tok("NEWLINE", "\n", n),
                                    [type |-> "PY_BLOCK",
                                     value |-> [k |-> "text", lines |-> text],
                                     lineno |-> n + 1],
                                    Tok("PY_BLOCK_END", ":: end ::", end),
                                    Tok("NEWLINE", "\n", end) >>]
    /\ UNCHANGED <<target, outcome, lookahead, statestack, symstack, result>>

InitRaw == InitDecl

NextRaw ==
    \/ ReadLine \/ ReadRawBlock \/ EndInput
    \/ GetToken \/ Shift \/ Reduce \/ Accept \/ ParseError

SpecRaw == InitRaw /\ [][NextRaw]_vars

\* The lines of the source that hold a start marker, and those that hold a
\* line of a block that is no statement, in source order.
StartMarkers ==
    LET Raw(i) == lexer.lines[i].kind = "raw"
    IN  SelectSeq([i \in DOMAIN lexer.lines |-> i], Raw)

BadLines ==
    LET Bad(i) == lexer.lines[i].kind = "python" /\ lexer.lines[i].word = "bad"
    IN  SelectSeq([i \in DOMAIN lexer.lines |-> i], Bad)

\* The start marker of the block that holds line i.
StartOf(i) ==
    CHOOSE j \in 1..i :
       /\ lexer.lines[j].kind = "raw"
       /\ \A m \in (j + 1)..i : lexer.lines[m].kind = "python"

\* The raw blocks among the items of the module returned.
RawItems ==
    LET Raw(n) == n.k = "Python"
    IN  SelectSeq(result.value.body.v, Raw)

\* C14: when the text of a raw block does not parse, the error raised is a
\* syntax error that carries the file name of the parse and, as its line,
\* the line of the start marker of the block plus the 1-based offset of the
\* bad line in the text of the block; no source with such a block is
\* returned, and in a module that is returned the Python node of each raw
\* block carries the line of its start marker.
C14_RawBlockLinesAreSourceLines ==
    /\ (result.status = "raised" /\ result.error.msg = "invalid syntax") =>
          /\ BadLines # <<>>
          /\ LET offset == BadLines[1] - StartOf(BadLines[1])
             IN  /\ offset >= 1
                 /\ result.error.exc = "SyntaxError"
                 /\ result.error.lineno = IntVal(StartOf(BadLines[1]) + offset)
                 /\ result.error.filename = lexer.filename
    /\ result.status = "returned" =>
          /\ BadLines = <<>>
          /\ Len(RawItems) = Len(StartMarkers)
          /\ \A j \in DOMAIN RawItems : RawItems[j].lineno = IntVal(StartMarkers[j])

\* The second block of the source, which starts on line 4, has a text whose
\* second line is no statement, and the error names line 6.
C14_Witness ==
    /\ result.status = "raised"
    /\ result.error.msg = "invalid syntax"
    /\ StartMarkers = <<1, 4>>
    /\ BadLines = <<6>>
    /\ result.error.lineno = IntVal(6)

(***************************************************************************)
(* parse() on a declaration whose body is one binding of a subscript: the  *)
(* bound expression starts with x1 [ and its next tokens are drawn one by  *)
(* one.                                                                    *)
(***************************************************************************)
\* The text of the tokens read inside and after the brackets.
SliceTokens ==
    [ NAME |-> "", COLON |-> ":", DOUBLECOLON |-> "::", COMMA |-> ",",
      RSQB |-> "]", ELLIPSIS |-> "...", MINUS |-> "-" ]

\* The lexer reads one more token of the subscript.
ReadSliceToken ==
    /\ result.status = "parsing"
    /\ lookahead = None
    /\ lexer.pending = <<>> /\ ~lexer.done
    /\ Len(lexer.expr) < 2 + MaxSliceTokens
    /\ \E ty \in DOMAIN SliceTokens :
          lexer' = [lexer EXCEPT
                        !.expr = Append(@, ty),
                        !.pending =
                           << IF ty = "NAME"
                              THEN ExprTok(ty, lexer.expr, Len(lexer.lines))
                              ELSE Tok(ty, SliceTokens[ty], Len(lexer.lines)) >>]
    /\ UNCHANGED <<target, outcome, lookahead, statestack, symstack, result>>

InitSlice ==
    /\ target = None
    /\ outcome = [status |-> "idle"]
    /\ lexer = [NewLexer EXCEPT
                  !.lines = << AtDepth([kind |-> "declaration", word |-> "", form |-> 0], 0),
                               AtDepth([kind |-> "binding", word |-> "EQUAL", form |-> 0], 1) >>,
                  !.depth = 1,
                  !.midline = TRUE,
                  !.expr = << "NAME", "LSQB" >>,
                  !.pending = LineTokens([kind |-> "declaration"], 1)
                                \o << Tok("NEWLINE", "\n", 1), Tok("INDENT", "", 2),
                                      Tok("NAME", NameAt("b", 2), 2), Tok("EQUAL", "=", 2),
                                      Tok("NAME", NameAt("x", 1), 2), Tok("LSQB", "[", 2) >>]
    /\ lookahead = None
    /\ statestack = << {<<1, 0>>} >>
    /\ symstack = <<>>
    /\ result = [status |-> "parsing"]

NextSlice ==
    ReadSliceToken \/ EndInput \/ GetToken \/ Shift \/ Reduce \/ Accept \/ ParseError

SpecSlice == InitSlice /\ [][NextSlice]_vars

RECURSIVE Viable(_, _)
\* The grammar can accept the token type t after the tokens read so far: the
\* parser with this state stack can shift it, or accept on the end of
\* input, after some reductions.
Viable(stack, t) ==
    \/ Goto(stack[Len(stack)], t) # {}
    \/ t = "$end" /\ <<1, 1>> \in stack[Len(stack)]
    \/ \E r \in Completed(stack[Len(stack)]) :
          \E s \in { Reduced(stack, r) } : Viable(s, t)

\* The token just read is one the grammar cannot accept.
Unacceptable ==
    /\ result.status = "parsing"
    /\ lookahead # None
    /\ ~Viable(statestack, lookahead.type)

\* C15: once a token the grammar cannot accept has been read, the next step
\* of parse raises the syntax error that carries the line of that token and
\* the file name: no handler runs and no token is read in between, the
\* stacks stay as they are, and parse returns no tree.
C15_FirstBadTokenStopsTheParse ==
    [][Unacceptable =>
          /\ result'.status = "raised"
          /\ result'.error = raise_syntax_error("invalid syntax.", lexer.filename,
                                                IntVal(lookahead.lineno))
          /\ UNCHANGED <<lexer, lookahead, statestack, symstack>>]_vars

\* The token ] that follows x1[x2] has been refused, after the handlers of
\* x1[x2] have run on it.
C15_Witness ==
    /\ result.status = "raised"
    /\ lexer.expr = <<"NAME", "LSQB", "NAME", "RSQB", "RSQB">>
    /\ lookahead.type = "RSQB"
    /\ symstack[Len(symstack)].type = "test"


(***************************************************************************)
(* parse() called several times on the one _parser of the module, by two   *)
(* threads: a thread calls parse() again when its call has ended, and the  *)
(* scheduler switches between the threads at any step. The variables       *)
(* lexer, lookahead, statestack, symstack and result are those of the call *)
(* of the running thread; target holds those of the other thread          *)
(* and outcome.done the calls that have ended and been followed by         *)
(* another. mixed tells that a call ran while the other thread was in the  *)
(* middle of a call of its own.                                            *)
(***************************************************************************)
MaxParses == 3

\* The lexers of the calls once lexer.input(enaml_source) has been given the
\* source: the empty source, and a declaration with a body of one line,
\* which is well formed, has an unknown attribute keyword, or is a
\* declaration header where none can stand.
Sources ==
    { [NewLexer EXCEPT !.done = TRUE, !.pending = << Tok("ENDMARKER", "", 1) >>] }
    \cup
    { [NewLexer EXCEPT
          !.done = TRUE,
          !.lines = << AtDepth([kind |-> "declaration", word |-> "", form |-> 0], 0),
                       AtDepth(b, 1) >>,
          !.pending = LineTokens([kind |-> "declaration"], 1)
                        \o << Tok("NEWLINE", "\n", 1), Tok("INDENT", "", 2) >>
                        \o LineTokens(b, 2)
                        \o << Tok("NEWLINE", "\n", 2), Tok("DEDENT", "", 3),
                              Tok("ENDMARKER", "", 3) >>] :
        b \in { [kind |-> "pass", word |-> "", form |-> 0],
                [kind |-> "attribute", word |-> "attr", form |-> 3],
                [kind |-> "attribute", word |-> "bar", form |-> 1],
                [kind |-> "declaration", word |-> "", form |-> 0] } }

\* The call of the running thread.
Running ==
    [lexer |-> lexer, lookahead |-> lookahead, statestack |-> statestack,
     symstack |-> symstack, result |-> result, mixed |-> outcome.mixed]

\* parse(enaml_source, filename) with the stacks of the call before left
\* in place.
parse_KeepsStacks ==
    /\ Len(outcome.done) + (IF target = None THEN 1 ELSE 2) < MaxParses
    /\ \E source \in Sources :
         /\ lexer' = source
         /\ lookahead' = None
         /\ UNCHANGED <<statestack, symstack>>
         /\ result' = [status |-> "parsing"]
         /\ result.status # "parsing"
         /\ outcome' = [outcome EXCEPT !.done = Append(@, Running), !.mixed = FALSE]
         /\ UNCHANGED target

\* parse(enaml_source, filename): _lexer = EnamlLexer(filename) is a lexer
\* of the call's own, and _parser.parse(enaml_source, lexer=_lexer) starts
\* on new stacks with no lookahead. The caller is the running thread, whose
\* call before has ended, or the other thread making its first call.
parse ==
    /\ Len(outcome.done) + (IF target = None THEN 1 ELSE 2) < MaxParses
    /\ \E source \in Sources :
         /\ lexer' = source
         /\ lookahead' = None
         /\ statestack' = << {<<1, 0>>} >>
         /\ symstack' = <<>>
         /\ result' = [status |-> "parsing"]
         /\ \/ /\ result.status # "parsing"
               /\ LET busy == target # None /\ target.result.status = "parsing"
                  IN  /\ outcome' = [outcome EXCEPT !.done = Append(@, Running),
                                                    !.mixed = busy]
                      /\ target' = IF busy THEN [target EXCEPT !.mixed = TRUE]
                                   ELSE target
            \/ /\ target = None
               /\ LET busy == result.status = "parsing"
                  IN  /\ target' = [Running EXCEPT !.mixed = @ \/ busy]
                      /\ outcome' = [outcome EXCEPT !.mixed = busy]

\* The threads switch, and the stacks stay: the loop of each call works on
\* the stacks of the parser.
Switch_SharedStacks ==
    /\ target # None
    /\ target' = Running
    /\ lexer' = target.lexer
    /\ lookahead' = target.lookahead
    /\ result' = target.result
    /\ outcome' = [outcome EXCEPT !.mixed = target.mixed]
    /\ UNCHANGED <<statestack, symstack>>

\* The threads switch: the call of the other thread goes on where it was,
\* with its own lexer, lookahead and stacks, which are local to the loop of
\* _parser.parse.
Switch ==
    /\ target # None
    /\ target' = Running
    /\ lexer' = target.lexer
    /\ lookahead' = target.lookahead
    /\ statestack' = target.statestack
    /\ symstack' = target.symstack
    /\ result' = target.result
    /\ outcome' = [outcome EXCEPT !.mixed = target.mixed]

InitCalls ==
    /\ target = None
    /\ outcome = [status |-> "calls", done |-> <<>>, mixed |-> FALSE]
    /\ lexer \in Sources
    /\ lookahead = None
    /\ statestack = << {<<1, 0>>} >>
    /\ symstack = <<>>
    /\ result = [status |-> "parsing"]

NextCalls == parse \/ Switch \/ GetToken \/ Shift \/ Reduce \/ Accept \/ ParseError

SpecCalls == InitCalls /\ [][NextCalls]_vars

\* The calls that have ended.
EndedCalls ==
    { c \in { outcome.done[i] : i \in DOMAIN outcome.done } \cup {Running}
               \cup (IF target = None THEN {} ELSE {target}) :
        c.result.status # "parsing" }

C18_Operators ==
    {"VBAR", "CIRCUMFLEX", "AMPER", "LEFTSHIFT", "RIGHTSHIFT", "PLUS", "MINUS",
     "STAR", "SLASH", "PERCENT", "DOUBLESLASH", "DOUBLESTAR"}

\* C18: for each of the binary operators |, ^, &, <<, >>, +, -, *, /, %, //
\* and **, the expression x1 op x2 parses, and parses to a binary operation
\* of that operator with the tree of x1 on the left and the tree of x2 on
\* the right.
C18_EveryBinaryOperatorBuildsItsNode ==
    (/\ Finished
     /\ Len(lexer.expr) = 3
     /\ lexer.expr[1] = "NAME" /\ lexer.expr[3] = "NAME"
     /\ lexer.expr[2] \in C18_Operators) =>
        /\ result.status = "returned"
        /\ BoundTree = Tree(lexer.expr[2], X(1), X(2))

\* The parse of x1 & x2 has ended with an error.
C18_Witness ==
    /\ Finished
    /\ lexer.expr = <<"NAME", "AMPER", "NAME">>
    /\ result.status = "raised"

(***************************************************************************)
(* What the claims say of the subscript x1[...] of the source of           *)
(* SpecSlice.                                                              *)
(***************************************************************************)
\* The subscript is closed and the parse has returned: the tokens written
\* between the brackets, the token :: standing for two colons.
Brackets ==
    LET inner == SubSeq(lexer.expr, 3, Len(lexer.expr) - 1)
        RECURSIVE Colons(_)
        Colons(s) ==
            IF s = <<>> THEN <<>>
            ELSE (IF Head(s) = "DOUBLECOLON" THEN <<"COLON", "COLON">> ELSE <<Head(s)>>)
                     \o Colons(Tail(s))
    IN  Colons(inner)

\* The name written at place i between the brackets: x1 stands before them.
NameIn(i) ==
    X(1 + Cardinality({ j \in 1..i : Brackets[j] = "NAME" }))

\* The parse of x1[...] has returned, with one slice of names and colons
\* between the brackets.
OneSlice ==
    /\ result.status = "returned"
    /\ Len(lexer.expr) >= 4
    /\ lexer.expr[Len(lexer.expr)] = "RSQB"
    /\ \A i \in DOMAIN Brackets : Brackets[i] \in {"NAME", "COLON"}
    /\ \E i \in DOMAIN Brackets : Brackets[i] = "COLON"

\* The places of the colons of the slice.
ColonPlaces == { i \in DOMAIN Brackets : Brackets[i] = "COLON" }

\* The expression written at place i of the slice, None if that place holds
\* none.
Written(i) ==
    IF i \in DOMAIN Brackets /\ Brackets[i] = "NAME" THEN NameIn(i) ELSE None

\* C19: every slice form gives a Slice node with its three fields defined:
\* lower and upper are the expressions written before and after the first
\* colon, None where none is written, and step is the expression written
\* after the second colon, the name None when that colon is followed by
\* nothing, None when there is no second colon. So x1[x2:x3] has upper = x3
\* and x1[x2:] has upper = None.
C19_SlicesHaveLowerUpperStep ==
    OneSlice =>
        LET slice == BoundTree.slice
            first == CHOOSE i \in ColonPlaces : \A j \in ColonPlaces : i <= j
            second == CHOOSE i \in ColonPlaces : \A j \in ColonPlaces : i >= j
        IN  /\ slice.k = "Slice"
            /\ {"lower", "upper", "step"} \subseteq DOMAIN slice
            /\ slice.lower = Written(first - 1)
            /\ slice.upper = Written(first + 1)
            /\ slice.step = IF second = first THEN None
                            ELSE IF second = Len(Brackets) THEN NoneName
                            ELSE Written(second + 1)

\* x1[x2:x3] has been parsed to a tree.
C19_Witness ==
    /\ result.status = "returned"
    /\ lexer.expr = <<"NAME", "LSQB", "NAME", "COLON", "NAME", "RSQB">>

\* The parse of x1[...] has returned, with names between the brackets, each
\* but the last followed by a comma.
NameList ==
    /\ result.status = "returned"
    /\ Len(lexer.expr) >= 6
    /\ lexer.expr[Len(lexer.expr)] = "RSQB"
    /\ \A i \in DOMAIN Brackets :
          Brackets[i] = (IF i % 2 = 1 THEN "NAME" ELSE "COMMA")
    /\ Len(Brackets) % 2 = 1

\* C20: a rule for a sequence separated by commas yields the trees of the n
\* elements written, in the order of the source, as a sequence of length n:
\* the subscript list x1[x2, ..., xn+1] has n dimensions, the i-th being
\* the index x(i+1).
C20_CommaSequencesKeepTheirElements ==
    NameList =>
        LET dims == BoundTree.slice.dims
            n == (Len(Brackets) + 1) \div 2
        IN  /\ dims.k = "list"
            /\ Len(dims.v) = n
            /\ \A i \in 1..n : dims.v[i] = [k |-> "Index", value |-> X(i + 1)]

\* x1[x2, x3, x4] has been parsed to a tree.
C20_Witness ==
    /\ result.status = "returned"
    /\ lexer.expr = <<"NAME", "LSQB", "NAME", "COMMA", "NAME", "COMMA", "NAME", "RSQB">>

(***************************************************************************)
(* The items of the bodies of a declarative source.                        *)
(***************************************************************************)
\* The depth of the line that opens a body: the module is opened on line 0.
DepthOf(h) == IF h = 0 THEN 0 - 1 ELSE lexer.lines[h].depth

\* The lines written directly in the body opened on line h.
BodyOf(h) ==
    { j \in DOMAIN lexer.lines :
        /\ j > h
        /\ lexer.lines[j].depth = DepthOf(h) + 1
        /\ \A i \in (h + 1)..j : lexer.lines[i].depth > DepthOf(h) }

\* The lines of a set, in the order of the source.
InOrder(S) ==
    CHOOSE s \in [1..Cardinality(S) -> S] :
        \A i, j \in 1..Cardinality(S) : i < j => s[i] < s[j]

\* C27: the items of a Module, of a Declaration body and of an
\* Instantiation body are the items written in that body other than pass
\* lines (and than the docstring and the identifier marker that lead it),
\* in the order of the source, none dropped and none twice; a body of pass
\* lines only has no item and no identifier.
C27_BodiesHoldTheItemsWritten ==
    result.status = "returned" =>
        \A n \in ReturnedNodes :
            n.k \in {"Module", "Declaration", "Instantiation"} =>
               LET h == IF n.k = "Module" THEN 0 ELSE n.lineno.n
                   written == InOrder({ j \in BodyOf(h) :
                                 lexer.lines[j].kind \notin {"pass", "docstring", "marker"} })
               IN  /\ n.body.k = "list"
                   /\ Len(n.body.v) = Len(written)
                   /\ \A i \in DOMAIN written :
                         /\ n.body.v[i].k \in {"Declaration", "Instantiation",
                                               "AttributeDeclaration", "AttributeBinding"}
                         /\ n.body.v[i].lineno = IntVal(written[i])
                         /\ StartsOn(n.body.v[i], written[i])
                   /\ (n.k # "Module" /\ \A j \in BodyOf(h) : lexer.lines[j].kind = "pass")
                         => n.body.v = <<>> /\ n.identifier = None

\* A declaration whose body is the marker 'id: x2', an attribute declaration
\* and a binding has been returned.
C27_Witness ==
    /\ result.status = "returned"
    /\ Len(lexer.lines) = 4
    /\ lexer.lines[2].kind = "marker"
    /\ lexer.lines[3].kind = "attribute"
    /\ lexer.lines[4].kind = "binding"
    /\ lexer.lines[4].depth = 1

(***************************************************************************)
(* parse() on a declaration whose body is one binding, the bound           *)
(* expression being read a phrase at a time: a phrase is a few tokens that *)
(* are written together.                                                   *)
(***************************************************************************)
\* The text of the tokens of the phrases.
TokenText ==
    ExprTokens @@ SliceTokens @@
    [ LPAR |-> "(", RPAR |-> ")", LSQB |-> "[", RSQB |-> "]", EQUAL |-> "=",
      LBRACE |-> "{", RBRACE |-> "}", FOR |-> "for",
      FROM |-> "from", IMPORT |-> "import" ] @@
    ("IN" :> "in" @@ "IF" :> "if" @@ "LAMBDA" :> "lambda")

\* The tokens of the phrase ph written on line n after the tokens read.
PhraseTokens(ph, read, n) ==
    [i \in DOMAIN ph |->
        IF ph[i] = "NAME" THEN ExprTok("NAME", read \o SubSeq(ph, 1, i - 1), n)
        ELSE Tok(ph[i], TokenText[ph[i]], n)]

\* The lexer reads one more phrase of the bound expression, one of phrases,
\* if that leaves it within max tokens.
ReadPhrase(phrases, max) ==
    /\ result.status = "parsing"
    /\ lookahead = None
    /\ lexer.pending = <<>> /\ ~lexer.done
    /\ \E ph \in phrases :
          /\ Len(lexer.expr) + Len(ph) <= max
          /\ lexer' = [lexer EXCEPT
                 !.expr = @ \o ph,
                 !.pending = PhraseTokens(ph, lexer.expr, Len(lexer.lines))]
    /\ UNCHANGED <<target, outcome, lookahead, statestack, symstack, result>>

\* The expression starts with the atom x1; then come names, the trailers
\* .x, (), (x) and [x], and the exponent ** x.
TrailerPhrases ==
    IF lexer.expr = <<>> THEN { <<"NAME">> }
    ELSE { <<"NAME">>, <<"DOT", "NAME">>, <<"LPAR", "RPAR">>,
           <<"LPAR", "NAME", "RPAR">>, <<"LSQB", "NAME", "RSQB">>,
           <<"DOUBLESTAR", "NAME">> }

NextTrailer ==
    \/ ReadPhrase(TrailerPhrases, MaxTrailerTokens)
    \/ EndInput \/ GetToken \/ Shift \/ Reduce \/ Accept \/ ParseError

SpecTrailer == InitExpr /\ [][NextTrailer]_vars

RECURSIVE Folded(_, _, _)
\* The tree of the tokens s written after the tree root, n names having
\* been written before them; None if s is no chain of trailers.
Folded(s, root, n) ==
    LET is(ph) == Len(s) >= Len(ph) /\ SubSeq(s, 1, Len(ph)) = ph
        rest(ph) == SubSeq(s, Len(ph) + 1, Len(s))
    IN  IF s = <<>> THEN root
        ELSE IF is(<<"DOT", "NAME">>) THEN
            Folded(rest(<<"DOT", "NAME">>),
                   [k |-> "Attribute", attr |-> Str(NameAt("x", n + 1)), ctx |-> Load,
                    value |-> root], n + 1)
        ELSE IF is(<<"LPAR", "RPAR">>) THEN
            Folded(rest(<<"LPAR", "RPAR">>),
                   [k |-> "Call", args |-> List(<<>>), keywords |-> List(<<>>),
                    starargs |-> None, kwargs |-> None, func |-> root], n)
        ELSE IF is(<<"LPAR", "NAME", "RPAR">>) THEN
            Folded(rest(<<"LPAR", "NAME", "RPAR">>),
                   [k |-> "Call", args |-> List(<<X(n + 1)>>), keywords |-> List(<<>>),
                    starargs |-> None, kwargs |-> None, func |-> root], n + 1)
        ELSE IF is(<<"LSQB", "NAME", "RSQB">>) THEN
            Folded(rest(<<"LSQB", "NAME", "RSQB">>),
                   [k |-> "Subscript", slice |-> [k |-> "Index", value |-> X(n + 1)],
                    ctx |-> Load, value |-> root], n + 1)
        ELSE IF is(<<"DOUBLESTAR", "NAME">>) THEN
            [k |-> "BinOp", left |-> root, op |-> [k |-> "Pow"],
             right |-> Folded(rest(<<"DOUBLESTAR", "NAME">>), X(n + 1), n + 1)]
        ELSE None

\* C21: the trailers t1..tn written after an atom are folded onto it in
\* the order of the source: the operand of t1 (the func of a call, the
\* value of an attribute or a subscript) is the atom, the operand of each
\* later trailer is the tree of the trailer before it, and the result is
\* tn; a following ** has that result on its left and the factor written
\* after it on its right.
C21_TrailersFoldOntoTheAtom ==
    (result.status = "returned" /\ lexer.expr # <<>> /\ lexer.expr[1] = "NAME") =>
        BoundTree = Folded(Tail(lexer.expr), X(1), 1)

\* x1.x2(x3)[x4] has been parsed to a tree.
C21_Witness ==
    /\ result.status = "returned"
    /\ lexer.expr = <<"NAME", "DOT", "NAME", "LPAR", "NAME", "RPAR",
                      "LSQB", "NAME", "RSQB">>

(***************************************************************************)
(* parse() on a declaration whose body is one double-colon binding: the    *)
(* statement written after the :: on its line, or the statements of the    *)
(* indented block under it, one a line.                                    *)
(***************************************************************************)
\* The statements written, as the types of their tokens.
Statements ==
    << <<"NAME">>,
       <<"NAME", "EQUAL", "NAME">>,
       <<"NAME", "COMMA", "NAME", "EQUAL", "NAME">>,
       <<"NAME", "EQUAL", "NAME", "COMMA", "NAME">>,
       <<"NAME", "DOT", "NAME", "EQUAL", "NAME">>,
       <<"NAME", "LSQB", "NAME", "RSQB", "EQUAL", "NAME">>,
       <<"LPAR", "NAME", "COMMA", "NAME", "RPAR", "EQUAL", "NAME">>,
       <<"LSQB", "NAME", "COMMA", "NAME", "DOT", "NAME", "RSQB", "EQUAL", "NAME">>,
       <<"NAME", "PLUS", "NAME", "EQUAL", "NAME">>,
       <<"LPAR", "RPAR", "EQUAL", "NAME">>,
       <<"NAME", "EQUAL">>,
       <<"NAME", "LPAR", "RPAR", "EQUAL", "NAME", "PLUS", "NAME">>,
       <<"LPAR", "NAME", "RPAR", "EQUAL", "NAME">>,
       <<"NAME", "COMMA", "EQUAL", "NAME">>,
       <<"NAME", "EQUAL", "NAME", "PLUS", "NAME">>,
       <<"NOT", "NAME", "EQUAL", "NAME">>,
       <<"NAME", "OR", "NAME", "EQUAL", "NAME">>,
       <<"NAME", "EQEQUAL", "NAME", "EQUAL", "NAME">>,
       <<"MINUS", "NAME", "EQUAL", "NAME">>,
       <<"LSQB", "NAME", "COMMA", "NAME", "PLUS", "NAME", "RSQB", "EQUAL", "NAME">>,
       <<"LBRACE", "RBRACE", "EQUAL", "NAME">>,
       <<"LBRACE", "NAME", "COLON", "NAME", "RBRACE", "EQUAL", "NAME">>,
       <<"LBRACE", "NAME", "COMMA", "NAME", "RBRACE", "EQUAL", "NAME">>,
       <<"NAME", "EQUAL", "LBRACE", "NAME", "COLON", "NAME", "COMMA", "NAME", "COLON",
         "NAME", "RBRACE">>,
       <<"NAME", "EQUAL", "LBRACE", "NAME", "COMMA", "RBRACE">>,
       <<"NAME", "LPAR", "NAME", "RPAR", "LSQB", "NAME", "RSQB", "DOT", "NAME", "EQUAL",
         "NAME">>,
       <<"LSQB", "NAME", "FOR", "NAME", "IN", "NAME", "RSQB", "EQUAL", "NAME">>,
       <<"LPAR", "NAME", "FOR", "NAME", "IN", "NAME", "RPAR", "EQUAL", "NAME">>,
       <<"LBRACE", "NAME", "FOR", "NAME", "IN", "NAME", "RBRACE", "EQUAL", "NAME">>,
       <<"LBRACE", "NAME", "COLON", "NAME", "FOR", "NAME", "IN", "NAME", "RBRACE",
         "EQUAL", "NAME">> >>

\* The lexer reads one more statement: the one written after the :: on
\* line 2 (form tells which), or the next line of the block under it.
ReadStatement ==
    /\ result.status = "parsing"
    /\ lookahead = None
    /\ lexer.pending = <<>> /\ ~lexer.done
    /\ lexer.lines[2].form = 0
    /\ \E i \in DOMAIN Statements :
         \/ /\ Len(lexer.lines) = 2
            /\ lexer' = [lexer EXCEPT
                   !.lines[2].form = i,
                   !.expr = @ \o Statements[i],
                   !.pending = PhraseTokens(Statements[i], lexer.expr, 2)]
         \/ /\ Len(lexer.lines) - 2 < MaxStmts
            /\ LET n == Len(lexer.lines) + 1
               IN  lexer' = [lexer EXCEPT
                      !.lines = Append(@, AtDepth([kind |-> "statement", word |-> "",
                                                   form |-> i], 2)),
                      !.depth = 2,
                      !.midline = FALSE,
                      !.expr = @ \o Statements[i],
                      !.pending =
                         (IF n = 3 THEN << Tok("NEWLINE", "\n", 2), Tok("INDENT", "", 3) >>
                          ELSE <<>>)
                         \o PhraseTokens(Statements[i], lexer.expr, n)
                         \o << Tok("NEWLINE", "\n", n) >>]
    /\ UNCHANGED <<target, outcome, lookahead, statestack, symstack, result>>

InitStmt ==
    /\ target = None
    /\ outcome = [status |-> "idle"]
    /\ lexer = [NewLexer EXCEPT
                  !.lines = << AtDepth([kind |-> "declaration", word |-> "", form |-> 0], 0),
                               AtDepth([kind |-> "binding", word |-> "DOUBLECOLON",
                                        form |-> 0], 1) >>,
                  !.depth = 1,
                  !.midline = TRUE,
                  !.pending = LineTokens([kind |-> "declaration"], 1)
                                \o << Tok("NEWLINE", "\n", 1), Tok("INDENT", "", 2),
                                      Tok("NAME", NameAt("b", 2), 2),
                                      Tok("DOUBLECOLON", "::", 2) >>]
    /\ lookahead = None
    /\ statestack = << {<<1, 0>>} >>
    /\ symstack = <<>>
    /\ result = [status |-> "parsing"]

NextStmt ==
    ReadStatement \/ EndInput \/ GetToken \/ Shift \/ Reduce \/ Accept \/ ParseError

SpecStmt == InitStmt /\ [][NextStmt]_vars

(***************************************************************************)
(* The statements of double-colon bindings.                                *)
(***************************************************************************)
\* The lines on which the statements of the binding are written, in order.
StatementLines ==
    IF lexer.lines[2].form # 0 THEN <<2>>
    ELSE [i \in 1..(Len(lexer.lines) - 2) |-> i + 2]

\* The statement written on line l, as an index of Statements.
StatementOn(l) == lexer.lines[l].form

\* The statement written on line l is an assignment.
IsAssignment(l) == \E i \in DOMAIN Statements[StatementOn(l)] : Statements[StatementOn(l)][i] = "EQUAL"

\* The BoundExpression nodes of the tree returned.
BoundBlocks == { n \in ReturnedNodes : n.k = "BoundExpression" }

\* C26: a double-colon binding yields a BoundExpression of the ColonColon
\* kind whose Python wrapper holds a module body of at least one statement,
\* exactly the statements of the binding in the order of the source, each
\* carrying the line on which it is written; the wrapper and the
\* BoundExpression carry the line of the :: token.
C26_BlockBindingsKeepTheirStatementLines ==
    result.status = "returned" =>
        /\ BoundBlocks # {}
        /\ \A n \in BoundBlocks :
             /\ n.op = Str("__operator_ColonColon__")
             /\ n.lineno = IntVal(2)
             /\ n.expr.k = "Python"
             /\ n.expr.lineno = IntVal(2)
             /\ n.expr.py_ast.k = "Module"
             /\ n.expr.py_ast.body.k = "list"
             /\ Len(n.expr.py_ast.body.v) >= 1
             /\ Len(n.expr.py_ast.body.v) = Len(StatementLines)
             /\ \A i \in DOMAIN StatementLines :
                  LET stmt == n.expr.py_ast.body.v[i]
                  IN  /\ stmt.k = (IF IsAssignment(StatementLines[i]) THEN "Assign" ELSE "Expr")
                      /\ stmt.lineno = IntVal(StatementLines[i])

\* C26, without the line of the statements: the body holds exactly the
\* statements written, in order, under a wrapper on the line of the ::.
C26_BlockBindingsKeepTheirStatements ==
    result.status = "returned" =>
        /\ BoundBlocks # {}
        /\ \A n \in BoundBlocks :
             /\ n.op = Str("__operator_ColonColon__")
             /\ n.lineno = IntVal(2)
             /\ n.expr.k = "Python"
             /\ n.expr.lineno = IntVal(2)
             /\ n.expr.py_ast.k = "Module"
             /\ n.expr.py_ast.body.k = "list"
             /\ Len(n.expr.py_ast.body.v) = Len(StatementLines)
             /\ \A i \in DOMAIN StatementLines :
                  LET stmt == n.expr.py_ast.body.v[i]
                  IN  /\ stmt.k = (IF IsAssignment(StatementLines[i]) THEN "Assign" ELSE "Expr")
                      /\ stmt.lineno = IntVal(0)

\* A block of two statements under a :: has been parsed to a tree.
C26_Witness ==
    /\ result.status = "returned"
    /\ Len(lexer.lines) = 4
    /\ StatementOn(3) = 2
    /\ StatementOn(4) = 1

(***************************************************************************)
(* The targets and the value of an assignment statement.                   *)
(***************************************************************************)
\* The number of names written in the statement form f.
NamesIn(f) == Cardinality({ i \in DOMAIN Statements[f] : Statements[f][i] = "NAME" })

RECURSIVE NamesBefore(_)
\* The number of names written before the i-th statement of the binding.
NamesBefore(i) ==
    IF i = 1 THEN 0
    ELSE NamesBefore(i - 1) + NamesIn(StatementOn(StatementLines[i - 1]))

\* The i-th statement of the binding returned.
StatementAt(i) == (CHOOSE n \in BoundBlocks : TRUE).expr.py_ast.body.v[i]

\* The i-th statement of the binding returned is written as the form f.
Returned(i, f) ==
    /\ result.status = "returned"
    /\ i \in DOMAIN StatementLines
    /\ StatementOn(StatementLines[i]) = f

\* The node is the k-th name of the i-th statement, in the context ctx.
IsName(node, i, k, ctx) ==
    /\ node.k = "Name"
    /\ node.id = Str(NameAt("x", NamesBefore(i) + k))
    /\ node.ctx = ctx

\* The node is the tuple of the names k and k + 1 of the i-th statement.
IsPair(node, i, k, ctx) ==
    /\ node.k = "Tuple"
    /\ node.ctx = ctx
    /\ node.elts.k = "list"
    /\ Len(node.elts.v) = 2
    /\ IsName(node.elts.v[1], i, k, ctx)
    /\ IsName(node.elts.v[2], i, k + 1, ctx)

\* C22: an assignment lhs = rhs yields an Assign node with exactly one
\* target; the left side x, y becomes the single tuple target (x, y), as the
\* right side y, z becomes the single tuple value (y, z).
C22_AssignmentsHaveOneTarget ==
    /\ \A n \in ReturnedNodes :
          n.k = "Assign" => n.targets.k = "list" /\ Len(n.targets.v) = 1
    /\ \A i \in 1..MaxStmts :
          /\ Returned(i, 3) =>
                /\ IsPair(StatementAt(i).targets.v[1], i, 1, Store)
                /\ IsName(StatementAt(i).value, i, 3, Load)
          /\ Returned(i, 4) =>
                /\ IsName(StatementAt(i).targets.v[1], i, 1, Store)
                /\ IsPair(StatementAt(i).value, i, 2, Load)

\* C22, as the code has it: the items written left of the = are the targets
\* of the Assign node, one target each; the right side of several values is
\* one tuple value.
C22_EveryItemIsATarget ==
    \A i \in 1..MaxStmts :
        /\ Returned(i, 3) =>
              /\ Len(StatementAt(i).targets.v) = 2
              /\ IsName(StatementAt(i).targets.v[1], i, 1, Store)
              /\ IsName(StatementAt(i).targets.v[2], i, 2, Store)
              /\ IsName(StatementAt(i).value, i, 3, Load)
        /\ Returned(i, 4) =>
              /\ Len(StatementAt(i).targets.v) = 1
              /\ IsName(StatementAt(i).targets.v[1], i, 1, Store)
              /\ IsPair(StatementAt(i).value, i, 2, Load)

\* The statement x1, x2 = x3 has been parsed to a tree.
C22_Witness == Returned(1, 3)

(***************************************************************************)
(* What set_store_ctxt changes in the trees of an assignment.              *)
(***************************************************************************)
RECURSIVE Stored(_)
\* The target with the context Store on it and on the elements of the
\* tuples and lists in it, and like the node in everything else.
Stored(node) ==
    IF node.k \in {"Tuple", "List"}
    THEN [node EXCEPT !.ctx = Store,
                      !.elts = List([i \in DOMAIN node.elts.v |-> Stored(node.elts.v[i])])]
    ELSE [node EXCEPT !.ctx = Store]

\* The step in which p_expr_stmt2 has run and has returned the Assign node.
AssignReduced ==
    /\ Len(symstack) >= 3
    /\ symstack[Len(symstack) - 1].type = "EQUAL"
    /\ Len(symstack') = Len(symstack) - 2
    /\ symstack'[Len(symstack')].type = "expr_stmt"

\* C28: a successful set_store_ctxt puts the context Store on the target and,
\* recursively, on the elements of tuple and list targets, and changes
\* nothing else: the object of an attribute access, the object and the index
\* of a subscript and the nodes of the right side keep their context.
C28_OnlyTargetsAreStored ==
    [][AssignReduced =>
         LET lhs == symstack[Len(symstack) - 2].value
             rhs == symstack[Len(symstack)].value
             assg == symstack'[Len(symstack')].value
         IN  /\ Len(assg.targets.v) = Len(lhs.v)
             /\ \A i \in DOMAIN lhs.v :
                   Strip(assg.targets.v[i]) = Strip(Stored(lhs.v[i]))
             /\ IF Len(rhs.v) > 1
                THEN Strip(assg.value.elts) = Strip(rhs)
                ELSE Strip(assg.value) =
                        Strip(IF "ctx" \in DOMAIN rhs.v[1] THEN rhs.v[1]
                              ELSE SetAttr(rhs.v[1], "ctx", Load))]_vars

\* The statement [x1, x2.x3] = x4 has been parsed to a tree.
C28_Witness == Returned(1, 8)

(***************************************************************************)
(* The branches for a node no table and no rule knows.                     *)
(***************************************************************************)
RECURSIVE Handed(_)
\* The kinds of the nodes set_store_ctxt meets when it is given the node:
\* the node and, through the tuples and lists allowed, their elements.
Handed(node) ==
    {node.k} \cup
    (IF node.k \in {"Tuple", "List"}
     THEN UNION { Handed(node.elts.v[i]) : i \in DOMAIN node.elts.v }
     ELSE {})

\* C30: the branches for unexpected nodes are never taken: allowed_store and
\* disallowed_store are disjoint and hold the kind of every node the
\* expression rules can hand to set_store_ctxt, directly or as an element of
\* a tuple or a list; every element of a trailer list is a Call, an
\* Attribute or a Subscript; listmaker and dictorsetmaker yield one of the
\* two helper kinds; no TypeError is raised.
C30_NoUnexpectedNode ==
    /\ allowed_store \cap DOMAIN disallowed_store = {}
    /\ result.status = "raised" => result.error.exc # "TypeError"
    /\ \A i \in DOMAIN symstack :
          LET s == symstack[i]
          IN  /\ s.type \in {"test", "expr"} =>
                    Handed(s.value) \subseteq allowed_store \cup DOMAIN disallowed_store
              /\ s.type = "testlist" =>
                    \A j \in DOMAIN s.value.v :
                       Handed(s.value.v[j]) \subseteq
                          allowed_store \cup DOMAIN disallowed_store
              /\ s.type = "power_list" =>
                    \A j \in DOMAIN s.value.v :
                       s.value.v[j].k \in {"Call", "Attribute", "Subscript"}
              /\ s.type \in {"listmaker", "dictorsetmaker"} =>
                    s.value.k \in {"CommaSeparatedList", "GeneratorInfo"}

\* The statements x1(x2)[x3].x4 = x5 and x6 = {x7: x8, x9: x10} have been
\* parsed to a tree.
C30_Witness == Returned(1, 26) /\ Returned(2, 24)

(***************************************************************************)
(* parse() on a declaration whose binding is a comprehension.              *)
(***************************************************************************)
Closers == {"RSQB", "RPAR", "RBRACE"}

\* The phrases that may follow what is written: the bracket and the element
\* first, then for and if clauses, an if after a for only, then the closing
\* bracket, and nothing after it.
CompPhrases ==
    LET fors == { <<"FOR", "NAME", "IN", "NAME">>,
                  <<"FOR", "NAME", "COMMA", "NAME", "IN", "NAME">>,
                  <<"FOR", "NAME", "PLUS", "NAME", "IN", "NAME">> }
        ends == { <<c>> : c \in Closers }
    IN  IF lexer.expr = <<>>
        THEN { <<"LSQB", "NAME">>, <<"LPAR", "NAME">>, <<"LBRACE", "NAME">>,
               <<"LBRACE", "NAME", "COLON", "NAME">> }
        ELSE IF lexer.expr[Len(lexer.expr)] \in Closers THEN {}
        ELSE IF \A i \in DOMAIN lexer.expr : lexer.expr[i] # "FOR" THEN fors \cup ends
        ELSE fors \cup ends \cup { <<"IF", "NAME">> }

NextComp ==
    \/ ReadPhrase(CompPhrases, MaxCompTokens)
    \/ EndInput \/ GetToken \/ Shift \/ Reduce \/ Accept \/ ParseError

SpecComp == InitExpr /\ [][NextComp]_vars

\* The places of the token ty among the places S, in order.
PlacesOf(ty, S) == InOrder({ i \in S : lexer.expr[i] = ty })

\* The for clauses written.
Fors == PlacesOf("FOR", DOMAIN lexer.expr)

\* The last token of the j-th for clause and of the if clauses after it.
ClauseEnd(j) == IF j < Len(Fors) THEN Fors[j + 1] - 1 ELSE Len(lexer.expr) - 1

\* The name written at place i.
NameWritten(i) ==
    X(Cardinality({ j \in 1..i : lexer.expr[j] = "NAME" }))

\* The generator the j-th for clause stands for: its target, a name or a
\* pair of names, in the Store context; what it iterates; the conditions
\* written between it and the next for clause.
GeneratorWritten(j) ==
    LET for == Fors[j]
        in  == PlacesOf("IN", for..ClauseEnd(j))[1]
        ifs == PlacesOf("IF", for..ClauseEnd(j))
        StoreName(i) == [NameWritten(i) EXCEPT !.ctx = Store]
    IN  comprehension(
            IF in = for + 2 THEN StoreName(for + 1)
            ELSE [k |-> "Tuple", ctx |-> Store,
                  elts |-> List(<<StoreName(for + 1), StoreName(for + 3)>>)],
            NameWritten(in + 1),
            List([c \in DOMAIN ifs |-> NameWritten(ifs[c] + 1)]))

\* A comprehension has been parsed to a tree.
ComprehensionReturned == result.status = "returned" /\ Len(Fors) > 0

\* C25: the generators of a comprehension are its for clauses in the order
\* of the source, each with the if conditions written between it and the
\* next for clause, in order; every target is in the Store context, and a
\* comprehension with a target that is no target is not returned.
C25_GeneratorsFollowTheClauses ==
    ComprehensionReturned =>
        /\ BoundTree.k \in {"ListComp", "GeneratorExp", "SetComp", "DictComp"}
        /\ BoundTree.generators = List([j \in DOMAIN Fors |-> GeneratorWritten(j)])
        /\ \A i \in DOMAIN lexer.expr : lexer.expr[i] # "PLUS"

\* [x1 for x2 in x3 if x4 for x5 in x6 if x7] has been parsed to a tree.
C25_Witness ==
    /\ result.status = "returned"
    /\ lexer.expr = <<"LSQB", "NAME", "FOR", "NAME", "IN", "NAME", "IF", "NAME",
                      "FOR", "NAME", "IN", "NAME", "IF", "NAME", "RSQB">>

(***************************************************************************)
(* The import of the parser module by several processes at once: lines 16  *)
(* to 22 find the directory of the parse table, line 2184 has yacc write   *)
(* the table there. target holds the file system the processes share:      *)
(* the directories that exist, whether ~/.enaml can be made, the           *)
(* directories a table has been written to. outcome holds, for each        *)
(* process, the statement it is at and its _enaml_dir.                     *)
(***************************************************************************)
Processes == 1..MaxProcesses

\* os.path.join(os.path.expanduser('~'), '.enaml')
Home == "~/.enaml"

\* os.getcwd() of the process.
getcwd(p) == "cwd" \o ToString(p)

\* The process goes on to the statement pc.
At(p, pc) == outcome' = [outcome EXCEPT ![p].pc = pc]

\* _enaml_dir = os.path.join(os.path.expanduser('~'), '.enaml')
join(p) ==
    /\ outcome[p].pc = "join"
    /\ outcome' = [outcome EXCEPT ![p].pc = "exists", ![p].enaml_dir = Home]
    /\ UNCHANGED <<target, lexer, lookahead, statestack, symstack, result>>

\* if not os.path.exists(_enaml_dir):
exists(p) ==
    /\ outcome[p].pc = "exists"
    /\ At(p, IF outcome[p].enaml_dir \in target.dirs THEN "yacc" ELSE "mkdir")
    /\ UNCHANGED <<target, lexer, lookahead, statestack, symstack, result>>

\* os.mkdir(_enaml_dir): makes the directory, or raises OSError when it
\* exists by now or cannot be made.
mkdir(p) ==
    /\ outcome[p].pc = "mkdir"
    /\ IF outcome[p].enaml_dir \notin target.dirs /\ target.creatable
       THEN /\ target' = [target EXCEPT !.dirs = @ \cup {outcome[p].enaml_dir}]
            /\ At(p, "yacc")
       ELSE /\ At(p, "except")
            /\ UNCHANGED target
    /\ UNCHANGED <<lexer, lookahead, statestack, symstack, result>>

\* except OSError: _enaml_dir = os.getcwd()
except_OSError(p) ==
    /\ outcome[p].pc = "except"
    /\ outcome' = [outcome EXCEPT ![p].pc = "yacc", ![p].enaml_dir = getcwd(p)]
    /\ UNCHANGED <<target, lexer, lookahead, statestack, symstack, result>>

\* _parser = yacc.yacc(..., outputdir=_enaml_dir, ...)
yacc(p) ==
    /\ outcome[p].pc = "yacc"
    /\ target' = [target EXCEPT !.tables = @ \cup {outcome[p].enaml_dir}]
    /\ At(p, "done")
    /\ UNCHANGED <<lexer, lookahead, statestack, symstack, result>>

InitImport ==
    /\ \E dirs \in {{}, {Home}}, creatable \in BOOLEAN :
          target = [dirs |-> dirs, creatable |-> creatable, tables |-> {},
                    absent |-> dirs = {}]
    /\ outcome = [p \in Processes |-> [pc |-> "join", enaml_dir |-> ""]]
    /\ lexer = NewLexer
    /\ lookahead = None
    /\ statestack = <<>>
    /\ symstack = <<>>
    /\ result = [status |-> "importing"]

NextImport ==
    \E p \in Processes :
        join(p) \/ exists(p) \/ mkdir(p) \/ except_OSError(p) \/ yacc(p)

SpecImport == InitImport /\ [][NextImport]_vars

\* Every process has imported the module.
Imported == \A p \in Processes : outcome[p].pc = "done"

\* C29: when the processes import the parser module at the same time while
\* ~/.enaml is absent and can be made, every one of them ends up with
\* ~/.enaml as the directory of the parse table.
C29_EveryImporterGetsHome ==
    (target.absent /\ target.creatable) =>
        \A p \in Processes : outcome[p].pc = "done" => outcome[p].enaml_dir = Home

\* C29, as the code has it: the process whose mkdir made ~/.enaml keeps it,
\* and a process that found it absent and lost the race has its working
\* directory instead; the table is written to each directory in use.
C29_TheMakerGetsHome ==
    (Imported /\ target.absent /\ target.creatable) =>
        /\ \E p \in Processes : outcome[p].enaml_dir = Home
        /\ \A p \in Processes : outcome[p].enaml_dir \in {Home, getcwd(p)}
        /\ target.tables = { outcome[p].enaml_dir : p \in Processes }

\* Two processes have imported the module, ~/.enaml being absent when they
\* started.
C29_Witness == Imported /\ target.absent /\ target.creatable

(***************************************************************************)
(* parse() on a module of from-import lines.                               *)
(***************************************************************************)
\* The import lines written, as the types of their tokens.
Imports ==
    << <<"FROM", "NAME", "IMPORT", "STAR">>,
       <<"FROM", "NAME", "IMPORT", "NAME">>,
       <<"FROM", "NAME", "IMPORT", "NAME", "COMMA", "NAME">>,
       <<"FROM", "NAME", "IMPORT", "LPAR", "NAME", "COMMA", "NAME", "RPAR">>,
       <<"FROM", "DOT", "NAME", "IMPORT", "STAR">>,
       <<"FROM", "DOT", "NAME", "IMPORT", "NAME">>,
       <<"FROM", "DOT", "NAME", "IMPORT", "NAME", "COMMA", "NAME">>,
       <<"FROM", "DOT", "DOT", "NAME", "IMPORT", "LPAR", "NAME", "COMMA", "NAME", "RPAR">>,
       <<"FROM", "DOT", "IMPORT", "STAR">>,
       <<"FROM", "DOT", "DOT", "IMPORT", "NAME">>,
       <<"FROM", "DOT", "IMPORT", "NAME", "COMMA", "NAME">>,
       <<"FROM", "DOT", "IMPORT", "LPAR", "NAME", "RPAR">>,
       <<"FROM", "NAME", "IMPORT">>,
       <<"FROM", "NAME", "IMPORT", "NAME", "COMMA">> >>

\* The lexer reads one more import line of the module.
ReadImport ==
    /\ result.status = "parsing"
    /\ lookahead = None
    /\ lexer.pending = <<>> /\ ~lexer.done
    /\ Len(lexer.lines) < MaxImports
    /\ \E i \in DOMAIN Imports :
         LET n == Len(lexer.lines) + 1
         IN  lexer' = [lexer EXCEPT
                !.lines = Append(@, AtDepth([kind |-> "import", word |-> "",
                                             form |-> i], 0)),
                !.expr = @ \o Imports[i],
                !.pending = PhraseTokens(Imports[i], lexer.expr, n)
                              \o << Tok("NEWLINE", "\n", n) >>]
    /\ UNCHANGED <<target, outcome, lookahead, statestack, symstack, result>>

NextFrom == ReadImport \/ EndInput \/ GetToken \/ Shift \/ Reduce \/ Accept \/ ParseError

SpecFrom == InitDecl /\ [][NextFrom]_vars

\* The tokens of the import line l.
ImportOn(l) == Imports[lexer.lines[l].form]

RECURSIVE TokensBefore(_)
\* The number of tokens written before the line l.
TokensBefore(l) == IF l = 1 THEN 0 ELSE TokensBefore(l - 1) + Len(ImportOn(l - 1))

\* The names the line l imports, in order: the tokens after the import
\* keyword that are a name or the star.
NamesImported(l) ==
    LET form == ImportOn(l)
        imp == CHOOSE i \in DOMAIN form : form[i] = "IMPORT"
        places == InOrder({ i \in (imp + 1)..Len(form) : form[i] \in {"NAME", "STAR"} })
    IN  [c \in DOMAIN places |->
            IF form[places[c]] = "STAR" THEN Str("*")
            ELSE Str(NameAt("x", Cardinality({ j \in 1..(TokensBefore(l) + places[c]) :
                                                  lexer.expr[j] = "NAME" })))]

\* The number of dots written before the module name on line l.
DotsOn(l) == Cardinality({ i \in DOMAIN ImportOn(l) : ImportOn(l)[i] = "DOT" })

\* The ImportFrom node returned for the line l.
ImportNode(l) == result.value.body.v[l].py_ast.body.v[1]

\* The line l is a relative import with a module name and names that are
\* not in brackets: the rule p_import_from5.
BareRelative(l) ==
    LET form == ImportOn(l)
    IN  /\ Len(form) >= 5
        /\ form[2] = "DOT"
        /\ \E i \in DOMAIN form : i < Len(form) /\ form[i] = "IMPORT" /\ form[i + 1] = "NAME"
        /\ \E i \in DOMAIN form : i < Len(form) /\ form[i] = "NAME" /\ form[i + 1] = "IMPORT"

\* The ImportFrom node of the line l has the names and the level written.
AsWritten(l) ==
    /\ ImportNode(l).k = "ImportFrom"
    /\ ImportNode(l).names.k = "list"
    /\ Len(ImportNode(l).names.v) >= 1
    /\ ImportNode(l).names.v = [c \in DOMAIN NamesImported(l) |->
                                    alias(NamesImported(l)[c], None)]
    /\ ImportNode(l).level = IntVal(DotsOn(l))

\* C24: every ImportFrom node has as names a non-empty list of alias nodes,
\* one per imported name in the order of the source, the alias '*' for a
\* star import, and as level the number of dots written before the module
\* name; the relative forms accept the name lists the absolute forms
\* accept: only a line without names is rejected.
C24_ImportFromHasNamesAndLevel ==
    /\ result.status = "returned" =>
          /\ Len(result.value.body.v) = Len(lexer.lines)
          /\ \A l \in DOMAIN lexer.lines : AsWritten(l)
    /\ result.status = "raised" =>
          \E l \in DOMAIN lexer.lines : NamesImported(l) = <<>>

\* C24, as the code has it: the lines that do not go through
\* p_import_from5 are as the claim says; a relative import with a module
\* name takes one name without brackets, and its names are that alias
\* itself and no list.
C24_ImportFromButBareRelative ==
    /\ result.status = "returned" =>
          /\ Len(result.value.body.v) = Len(lexer.lines)
          /\ \A l \in DOMAIN lexer.lines :
                IF BareRelative(l)
                THEN /\ ImportNode(l).names = alias(NamesImported(l)[1], None)
                     /\ ImportNode(l).level = IntVal(DotsOn(l))
                ELSE AsWritten(l)
    /\ result.status = "raised" =>
          \E l \in DOMAIN lexer.lines :
             \/ NamesImported(l) = <<>>
             \/ BareRelative(l) /\ Len(NamesImported(l)) > 1

\* The module 'from .x1 import x2' has been parsed to a tree.
C24_Witness ==
    /\ result.status = "returned"
    /\ Len(lexer.lines) = 1
    /\ lexer.lines[1].form = 6

(***************************************************************************)
(* parse() on a declaration whose binding is a lambda.                     *)
(***************************************************************************)
\* The phrases that may follow what is written: the keyword, then the
\* parameters, each a name or a name with a default, then the colon and
\* the body, and nothing after it.
LambdaPhrases ==
    LET body == { <<"COLON", "NAME">> }
        more == { <<"COMMA", "NAME">>, <<"COMMA", "NAME", "EQUAL", "NAME">>,
                  <<"COMMA", "COLON", "NAME">> }
    IN  IF lexer.expr = <<>> THEN { <<"LAMBDA">> }
        ELSE IF \E i \in DOMAIN lexer.expr : lexer.expr[i] = "COLON" THEN {}
        ELSE IF Len(lexer.expr) = 1
        THEN { <<"NAME">>, <<"NAME", "EQUAL", "NAME">> } \cup body
        ELSE more \cup body

NextLambda ==
    \/ ReadPhrase(LambdaPhrases, MaxLambdaTokens)
    \/ EndInput \/ GetToken \/ Shift \/ Reduce \/ Accept \/ ParseError

SpecLambda == InitExpr /\ [][NextLambda]_vars

\* The places of the parameters written: the names after the keyword or
\* after a comma.
ParamsWritten ==
    InOrder({ i \in DOMAIN lexer.expr :
                /\ lexer.expr[i] = "NAME"
                /\ lexer.expr[i - 1] \in {"LAMBDA", "COMMA"} })

\* The parameter at place i is written with a default.
HasDefault(i) == i < Len(lexer.expr) /\ lexer.expr[i + 1] = "EQUAL"

\* The parameters written with a default, in order.
DefaultsWritten == InOrder({ i \in DOMAIN lexer.expr : HasDefault(i) })

\* The c-th and a later parameter are a parameter with a default and one
\* without.
Misordered(c) ==
    \E d \in DOMAIN ParamsWritten :
        c < d /\ HasDefault(ParamsWritten[c]) /\ ~HasDefault(ParamsWritten[d])

\* The whole lambda has been read and parse() has ended.
LambdaEnded ==
    /\ result.status \in {"returned", "raised"}
    /\ \E i \in DOMAIN lexer.expr : lexer.expr[i] = "COLON"

\* The arguments node has the parameters as written, in the Param context,
\* and the defaults as written, in order.
ArgumentsAsWritten(args) ==
    /\ args.args = List([c \in DOMAIN ParamsWritten |->
                            [NameWritten(ParamsWritten[c]) EXCEPT !.ctx = Param]])
    /\ args.defaults = List([c \in DOMAIN DefaultsWritten |->
                                NameWritten(DefaultsWritten[c] + 2)])
    /\ Len(args.defaults.v) <= Len(args.args.v)

NonDefaultFollows ==
    Raise("SyntaxError", "non-default argument follows default argument.")

\* C23: no lambda parameter list with a parameter without a default after
\* one with a default is accepted: each is rejected with 'non-default
\* argument follows default argument', so in every arguments node the
\* defaults are no more than the parameters and belong to the last
\* parameters as written.
C23_DefaultsBelongToTheLastParameters ==
    LambdaEnded =>
        IF \E c \in DOMAIN ParamsWritten : Misordered(c)
        THEN result.status = "raised" /\ result.error = NonDefaultFollows
        ELSE /\ result.status = "returned"
             /\ ArgumentsAsWritten(BoundTree.args)
             /\ \A c \in DOMAIN ParamsWritten :
                   HasDefault(ParamsWritten[c]) <=>
                       c > Len(ParamsWritten) - Len(BoundTree.args.defaults.v)

\* As the handlers have it: the order is looked at from the second
\* parameter on only, in p_varargslist_list3; a first parameter with a
\* default may be followed by parameters without one, and the defaults of
\* the node then belong to the parameters written with one, not to the last.
C23_DefaultsAreCheckedAfterTheFirstParameter ==
    LambdaEnded =>
        IF \E c \in DOMAIN ParamsWritten : c > 1 /\ Misordered(c)
        THEN result.status = "raised" /\ result.error = NonDefaultFollows
        ELSE /\ result.status = "returned"
             /\ BoundTree.k = "Lambda"
             /\ ArgumentsAsWritten(BoundTree.args)

\* lambda x1=x2, x3: x4 has been parsed to a tree.
C23_Witness ==
    /\ result.status = "returned"
    /\ lexer.expr = <<"LAMBDA", "NAME", "EQUAL", "NAME", "COMMA", "NAME", "COLON", "NAME">>

=============================================================================
